---------------------------- MODULE Spec2Model ----------------------------
(***************************************************************************)
(* A model of the Polymarket trade tracker: the value normalizer           *)
(* (processing.py), the position parser and the position aggregator        *)
(* (position_tracker.py) and the part of the upstream client that the      *)
(* aggregator depends on (bitquery_client.py).                             *)
(*                                                                         *)
(* Conventions                                                             *)
(*   - a Python str is a sequence of one-character strings, so that        *)
(*     strip(), lower() and == are computed and not assumed;               *)
(*   - a JSON value is a record [t, n, s, d]: t is its type, n its number  *)
(*     (or 0/1 for a bool), s its text, d the (key, value) pairs of a dict;*)
(*   - a Python float is the exact fraction [num, den] in lowest terms     *)
(*     (rounding of the binary representation is not modelled);            *)
(*   - a datetime is [aware, t]: aware says whether it carries a UTC       *)
(*     offset, t is the instant;                                           *)
(*   - an operation that can raise returns a record whose k field is       *)
(*     "raise" when the exception leaves the operation.                    *)
(***************************************************************************)
EXTENDS Integers, Sequences, FiniteSets, TLC

VARIABLES
    positions,   \* PositionTracker.positions: the retained history
    call,        \* the last operation called on the tracker, with its inputs
    ret,         \* what that operation returned (or that it raised)
    event,       \* the raw event handed to parse_order_filled_event
    now,         \* the wall clock read by datetime.now() during that parse
    parsed       \* what parse_order_filled_event returned for event

vars == <<positions, call, ret, event, now, parsed>>

-----------------------------------------------------------------------------
(* Python str                                                              *)

Whitespace == {" "}

RECURSIVE LStrip(_)
LStrip(s) ==
    IF s = <<>> THEN <<>>
    ELSE IF Head(s) \in Whitespace THEN LStrip(Tail(s)) ELSE s

RECURSIVE RStrip(_)
RStrip(s) ==
    IF s = <<>> THEN <<>>
    ELSE IF s[Len(s)] \in Whitespace THEN RStrip(SubSeq(s, 1, Len(s) - 1)) ELSE s

\* str.strip()
Strip(s) == RStrip(LStrip(s))

LowerChar(c) ==
    CASE c = "A" -> "a" [] c = "B" -> "b" [] c = "C" -> "c"
      [] c = "D" -> "d" [] c = "E" -> "e" [] c = "F" -> "f"
      [] c = "N" -> "n" [] c = "T" -> "t" [] c = "X" -> "x"
      [] c = "bigInteger" -> "biginteger"
      [] OTHER -> c

\* str.lower()
Lower(s) == [i \in 1..Len(s) |-> LowerChar(s[i])]

\* s.startswith(p)
StartsWith(s, p) == Len(s) >= Len(p) /\ SubSeq(s, 1, Len(p)) = p

DigitVal(c) ==
    CASE c = "0" -> 0 [] c = "1" -> 1 [] c = "2" -> 2 [] c = "3" -> 3
      [] c = "4" -> 4 [] c = "5" -> 5 [] c = "6" -> 6 [] c = "7" -> 7
      [] c = "8" -> 8 [] c = "9" -> 9
      [] c = "a" -> 10 [] c = "b" -> 11 [] c = "c" -> 12
      [] c = "d" -> 13 [] c = "e" -> 14 [] c = "f" -> 15
      [] c = "A" -> 10 [] c = "B" -> 11 [] c = "C" -> 12
      [] c = "D" -> 13 [] c = "E" -> 14 [] c = "F" -> 15
      [] OTHER -> 99

\* every character of s is a digit of the base, and there is at least one
AllDigits(s, base) == s # <<>> /\ \A i \in 1..Len(s) : DigitVal(s[i]) < base

RECURSIVE DigitsValue(_, _)
DigitsValue(s, base) ==
    IF s = <<>> THEN 0
    ELSE DigitsValue(SubSeq(s, 1, Len(s) - 1), base) * base + DigitVal(s[Len(s)])

DigitChar(d) ==
    CASE d = 0 -> "0" [] d = 1 -> "1" [] d = 2 -> "2" [] d = 3 -> "3"
      [] d = 4 -> "4" [] d = 5 -> "5" [] d = 6 -> "6" [] d = 7 -> "7"
      [] d = 8 -> "8" [] OTHER -> "9"

\* str(n) of a non-negative int
RECURSIVE IntToStr(_)
IntToStr(n) ==
    IF n < 10 THEN <<DigitChar(n)>>
    ELSE IntToStr(n \div 10) \o <<DigitChar(n % 10)>>

-----------------------------------------------------------------------------
(* JSON values as the upstream API delivers them                           *)

JNull == [t |-> "null", n |-> 0, s |-> <<>>, d |-> <<>>]
JInt(i) == [t |-> "int", n |-> i, s |-> <<>>, d |-> <<>>]
JBool(b) == [t |-> "bool", n |-> IF b THEN 1 ELSE 0, s |-> <<>>, d |-> <<>>]
JStr(str) == [t |-> "str", n |-> 0, s |-> str, d |-> <<>>]
\* a float of integral value i, as in 2.0
JFloat(i) == [t |-> "float", n |-> i, s |-> <<>>, d |-> <<>>]
\* bytes, held as their hex digits; the bytes used are not printable ones
JBytes(hex) == [t |-> "bytes", n |-> 0, s |-> hex, d |-> <<>>]
\* a dict: pairs is a sequence of [k |-> key, v |-> value], in insertion order
JDict(pairs) == [t |-> "dict", n |-> 0, s |-> <<>>, d |-> pairs]

\* key in value
DictHas(v, key) == \E i \in 1..Len(v.d) : v.d[i].k = key

\* value[key]: the last pair with that key
DictGet(v, key) ==
    LET idx == {i \in 1..Len(v.d) : v.d[i].k = key}
        last == CHOOSE i \in idx : \A j \in idx : j <= i
    IN  v.d[last].v

\* the variants of a tagged value container, in the order they are probed
VariantKeys == <<"bigInteger", "integer", "string", "address", "hex", "bool">>

\* the first variant key that is present and not None; 0 if there is none
FirstPopulated(v) ==
    LET hits == {i \in 1..Len(VariantKeys) :
                    /\ DictHas(v, VariantKeys[i])
                    /\ DictGet(v, VariantKeys[i]).t # "null"}
    IN  IF hits = {} THEN 0 ELSE CHOOSE i \in hits : \A j \in hits : i <= j

\* _resolve_value: peel nested containers until a primitive is found; a
\* container with no populated variant is returned as it is
RECURSIVE ResolveValue(_)
ResolveVariant(v, i) ==
    IF i # 0 THEN ResolveValue(DictGet(v, VariantKeys[i])) ELSE v

ResolveValue(v) ==
    IF v.t = "dict" THEN ResolveVariant(v, FirstPopulated(v)) ELSE v

\* repr of the bytes inside the quotes: \xNN for each byte
RECURSIVE BytesRepr(_)
BytesRepr(hex) ==
    IF Len(hex) < 2 THEN <<>>
    ELSE <<"\\", "x", hex[1], hex[2]>> \o BytesRepr(SubSeq(hex, 3, Len(hex)))

\* str(x) of a JSON value; a dict prints as its repr
RECURSIVE PyStr(_)
PyStr(v) ==
    CASE v.t = "str" -> v.s
      [] v.t = "int" -> IntToStr(v.n)
      [] v.t = "bool" -> IF v.n = 1 THEN <<"T", "r", "u", "e">>
                                    ELSE <<"F", "a", "l", "s", "e">>
      [] v.t = "null" -> <<"N", "o", "n", "e">>
      [] v.t = "float" -> IntToStr(v.n) \o <<".", "0">>
      [] v.t = "bytes" -> <<"b", "'">> \o BytesRepr(v.s) \o <<"'">>
      [] OTHER ->
            LET RECURSIVE Items(_)
                Items(i) ==
                    IF i > Len(v.d) THEN <<>>
                    ELSE (IF i > 1 THEN <<",", " ">> ELSE <<>>)
                         \o <<"'", v.d[i].k, "'", ":", " ">>
                         \o PyStr(v.d[i].v) \o Items(i + 1)
            IN  <<"{">> \o Items(1) \o <<"}">>

-----------------------------------------------------------------------------
(* processing.py                                                           *)

USDC_DECIMALS == 1000000
TOKEN_DECIMALS == 1000000

\* an optional Decimal, or the exception raised while computing it
NoDecimal == [k |-> "none", n |-> 0]
SomeDecimal(i) == [k |-> "num", n |-> i]
RaisedDecimal == [k |-> "raise", n |-> 0]

\* _to_decimal on a str
StrToDecimal(s) ==
    LET cleaned == Strip(s)
    IN  IF cleaned = <<>> THEN NoDecimal
        ELSE IF StartsWith(cleaned, <<"0", "x">>)
        THEN LET digits == SubSeq(cleaned, 3, Len(cleaned))
             IN  IF AllDigits(digits, 16)
                 THEN SomeDecimal(DigitsValue(digits, 16))
                 ELSE NoDecimal
        ELSE IF AllDigits(cleaned, 10)
        THEN SomeDecimal(DigitsValue(cleaned, 10))
        ELSE NoDecimal

\* _to_decimal: a bool is an int to isinstance, and Decimal("True") raises
\* decimal.InvalidOperation, which _to_decimal does not catch
ToDecimal(v) ==
    CASE v.t = "null" -> NoDecimal
      [] v.t = "int" -> SomeDecimal(v.n)
      [] v.t = "float" -> SomeDecimal(v.n)
      [] v.t = "bool" -> RaisedDecimal
      [] v.t = "str" -> StrToDecimal(v.s)
      [] OTHER -> NoDecimal

\* extract_value
ExtractValue(v) == ToDecimal(ResolveValue(v))

\* an optional str
NoStr == [some |-> FALSE, s |-> <<>>]
SomeStr(str) == [some |-> TRUE, s |-> str]

\* a string that is neither None nor ""
Truthy(str) == str.some /\ str.s # <<>>

\* extract_string_value
StrOfResolved(resolved) ==
    IF resolved.t = "null" THEN NoStr
    ELSE IF resolved.t = "bytes" THEN SomeStr(resolved.s)
    ELSE SomeStr(PyStr(resolved))

ExtractStringValue(v) == StrOfResolved(ResolveValue(v))

\* floats as fractions in lowest terms
RECURSIVE Gcd(_, _)
Gcd(a, b) == IF b = 0 THEN a ELSE Gcd(b, a % b)

Frac(a, b) ==
    IF a = 0 THEN [num |-> 0, den |-> 1]
    ELSE LET g == Gcd(a, b) IN [num |-> a \div g, den |-> b \div g]

FZero == Frac(0, 1)

\* x / y for y # 0
FracDiv(x, y) ==
    LET g1 == IF x.num = 0 THEN 1 ELSE Gcd(x.num, y.num)
        g2 == Gcd(x.den, y.den)
    IN  Frac((x.num \div g1) * (y.den \div g2), (x.den \div g2) * (y.num \div g1))

\* process_trade_amounts without the guard on a zero token amount
ProcessTradeAmountsUnguarded(usdc_paid, tokens_amount) ==
    LET usdc_value == IF usdc_paid.k = "num" THEN usdc_paid.n ELSE 0
        token_value == IF tokens_amount.k = "num" THEN tokens_amount.n ELSE 0
        usdc_normalized == Frac(usdc_value, USDC_DECIMALS)
        tokens_normalized == Frac(token_value, TOKEN_DECIMALS)
        price ==
            IF tokens_normalized # FZero
            THEN FracDiv(usdc_normalized, tokens_normalized) ELSE usdc_normalized
    IN  [usdc |-> usdc_normalized, tokens |-> tokens_normalized, price |-> price]

\* process_trade_amounts on two optional Decimals: absent counts as zero
ProcessTradeAmounts(usdc_paid, tokens_amount) ==
    LET usdc_value == IF usdc_paid.k = "num" THEN usdc_paid.n ELSE 0
        token_value == IF tokens_amount.k = "num" THEN tokens_amount.n ELSE 0
        usdc_normalized ==
            IF usdc_value # 0 THEN Frac(usdc_value, USDC_DECIMALS) ELSE FZero
        tokens_normalized ==
            IF token_value # 0 THEN Frac(token_value, TOKEN_DECIMALS) ELSE FZero
        price ==
            IF tokens_normalized # FZero
            THEN FracDiv(usdc_normalized, tokens_normalized) ELSE FZero
    IN  [usdc |-> usdc_normalized, tokens |-> tokens_normalized, price |-> price]

-----------------------------------------------------------------------------
(* Raw events                                                              *)
(*   Arguments   [k, items]: k is "missing" (no such key), "null" or       *)
(*               "list"; an item is [hasName, Name, hasValue, Value]       *)
(*   Block       [k, Time, Number]: k is "missing", "null" or "dict";      *)
(*               Time is [k, fmt, t] with k "missing", "null" or "str" and *)
(*               fmt "z" (ISO-8601 ending in Z), "naive" (ISO-8601 without *)
(*               an offset), "bad" (not ISO-8601) or "empty"               *)
(*   Transaction [k, From, Hash]: k as for Block; From is [k, s]           *)

\* datetime values
Aware(t) == [aware |-> TRUE, t |-> t]
Naive(t) == [aware |-> FALSE, t |-> t]

Position(asset_id, trader_address, maker_address, taker_address, amount, price, timestamp, tx_hash, block_number) ==
    [asset_id |-> asset_id, trader_address |-> trader_address,
     maker_address |-> maker_address, taker_address |-> taker_address,
     amount |-> amount, price |-> price, direction |-> "YES",
     timestamp |-> timestamp, tx_hash |-> tx_hash,
     block_number |-> block_number]

NoPosition == Position(<<>>, <<>>, <<>>, <<>>, FZero, FZero, Naive(0), "", 0)

\* the outcomes of a parse: a Position, None, or an exception
Parsed(p) == [k |-> "pos", p |-> p]
ParsedNone == [k |-> "none", p |-> NoPosition]
ParseRaised == [k |-> "raise", p |-> NoPosition]

\* event.get("Arguments", []) and the dict comprehension over it: iterating
\* None raises TypeError, arg["Name"] / arg["Value"] raise KeyError
ArgDict(ev) ==
    IF ev.Arguments.k = "null" THEN [k |-> "raise", d |-> JDict(<<>>)]
    ELSE LET args == IF ev.Arguments.k = "missing" THEN <<>> ELSE ev.Arguments.items
         IN  IF \E i \in 1..Len(args) : ~args[i].hasName \/ ~args[i].hasValue
             THEN [k |-> "raise", d |-> JDict(<<>>)]
             ELSE [k |-> "ok",
                   d |-> JDict([i \in 1..Len(args) |->
                                  [k |-> args[i].Name, v |-> args[i].Value]])]

\* maker_asset_id / taker_asset_id: None unless the argument is there and its
\* string value is non-empty
NoneIfEmpty(str) == IF str.some /\ str.s # <<>> THEN str ELSE NoStr

AssetIdArg(arg_dict, name) ==
    IF ~DictHas(arg_dict, name) THEN NoStr
    ELSE NoneIfEmpty(ExtractStringValue(DictGet(arg_dict, name)))

\* asset_id in ["0", 0, "0x0"] or (asset_id and str(asset_id).strip() == "0")
IsUsdc(asset_id) ==
    /\ asset_id.some
    /\ \/ asset_id.s \in {<<"0">>, <<"0", "x", "0">>}
       \/ asset_id.s # <<>> /\ Strip(asset_id.s) = <<"0">>

\* x or y on optional strings (None and "" are falsy)
OrStr(x, y) == IF x.some /\ x.s # <<>> THEN x ELSE y

\* a slip: the fallback prefers the taker's asset id
LegsPreferTaker(maker_asset_id, taker_asset_id) ==
    IF IsUsdc(maker_asset_id)
    THEN [usdc_given |-> "maker", outcome |-> taker_asset_id, fail |-> FALSE]
    ELSE IF IsUsdc(taker_asset_id)
    THEN [usdc_given |-> "taker", outcome |-> maker_asset_id, fail |-> FALSE]
    ELSE LET outcome == OrStr(taker_asset_id, maker_asset_id)
         IN  [usdc_given |-> "taker", outcome |-> outcome,
              fail |-> ~(outcome.some /\ outcome.s # <<>>)]

\* which side gives the stablecoin and which asset is the outcome token:
\* fail is the early return None when no asset id is known
Legs(maker_asset_id, taker_asset_id) ==
    IF IsUsdc(maker_asset_id)
    THEN [usdc_given |-> "maker", outcome |-> taker_asset_id, fail |-> FALSE]
    ELSE IF IsUsdc(taker_asset_id)
    THEN [usdc_given |-> "taker", outcome |-> maker_asset_id, fail |-> FALSE]
    ELSE LET outcome == OrStr(maker_asset_id, taker_asset_id)
         IN  [usdc_given |-> "taker", outcome |-> outcome,
              fail |-> ~(outcome.some /\ outcome.s # <<>>)]

MakerAmountKeys ==
    <<"makerAmountFilled", "makerAmount", "makerFillAmount", "makerFilledAmount">>
TakerAmountKeys ==
    <<"takerAmountFilled", "takerAmount", "takerFillAmount", "takerFilledAmount",
      "fillAmount", "amount">>

\* the amount loop: the first candidate that is present and resolves; an
\* exception from extract_value leaves the loop
RECURSIVE ProbeAmount(_, _, _)
ProbeNext(arg_dict, keys, i, value) ==
    IF value.k = "none" THEN ProbeAmount(arg_dict, keys, i + 1) ELSE value

ProbeAmount(arg_dict, keys, i) ==
    IF i > Len(keys) THEN NoDecimal
    ELSE IF ~DictHas(arg_dict, keys[i]) THEN ProbeAmount(arg_dict, keys, i + 1)
    ELSE ProbeNext(arg_dict, keys, i, ExtractValue(DictGet(arg_dict, keys[i])))

\* a slip: the stablecoin amount is always taken from the taker
UsdcPaidAlwaysTaker(usdc_given, maker_amount, taker_amount) == taker_amount

\* usdc_paid and tokens_amount from the two sides' amounts
UsdcPaid(usdc_given, maker_amount, taker_amount) ==
    IF usdc_given = "maker" THEN maker_amount ELSE taker_amount

TokensAmount(usdc_given, maker_amount, taker_amount) ==
    IF usdc_given = "maker" THEN taker_amount ELSE maker_amount

\* a slip: one missing amount is enough to give up
NoAmountsEither(usdc_paid, tokens_amount) ==
    usdc_paid.k = "none" \/ tokens_amount.k = "none"

\* usdc_paid is None and tokens_amount is None
NoAmounts(usdc_paid, tokens_amount) ==
    usdc_paid.k = "none" /\ tokens_amount.k = "none"

\* maker / taker: the lowercased address, "" when it resolves to "", None
\* when the argument is missing or resolves to None
LowerIfAny(str) == IF str.some /\ str.s # <<>> THEN SomeStr(Lower(str.s)) ELSE str

AddressArg(arg_dict, name) ==
    IF ~DictHas(arg_dict, name) THEN NoStr
    ELSE LowerIfAny(ExtractStringValue(DictGet(arg_dict, name)))

\* a slip: the two branches exchanged
TraderOfSupplier(usdc_given, maker, taker) ==
    IF usdc_given = "maker" THEN OrStr(maker, taker) ELSE OrStr(taker, maker)

\* the buyer: the side that receives the outcome tokens, else the other side
TraderOf(usdc_given, maker, taker) ==
    IF usdc_given = "maker" THEN OrStr(taker, maker) ELSE OrStr(maker, taker)

\* the fallback to Transaction.From: [k, s] with k "raise" when Transaction is
\* null
TraderFallback(ev, trader) ==
    IF trader.some /\ trader.s # <<>> THEN [k |-> "ok", s |-> trader.s]
    ELSE IF ev.Transaction.k = "null" THEN [k |-> "raise", s |-> <<>>]
    ELSE IF ev.Transaction.k = "missing" \/ ev.Transaction.From.k # "str"
    THEN [k |-> "ok", s |-> <<>>]
    ELSE [k |-> "ok", s |-> Lower(ev.Transaction.From.s)]

\* a slip: every event is stamped with the time it is parsed at
TimestampNow(ev, nowT) == [k |-> "ok", ts |-> Naive(nowT)]

\* the timestamp: [k, ts]; block.get on a null Block raises AttributeError,
\* fromisoformat on a malformed string raises ValueError
TimestampOf(ev, nowT) ==
    IF ev.Block.k = "null" THEN [k |-> "raise", ts |-> Naive(0)]
    ELSE IF ev.Block.k = "missing" \/ ev.Block.Time.k # "str"
            \/ ev.Block.Time.fmt = "empty"
    THEN [k |-> "ok", ts |-> Naive(nowT)]
    ELSE IF ev.Block.Time.fmt = "z" THEN [k |-> "ok", ts |-> Aware(ev.Block.Time.t)]
    ELSE IF ev.Block.Time.fmt = "naive"
    THEN [k |-> "ok", ts |-> Naive(ev.Block.Time.t)]
    ELSE [k |-> "raise", ts |-> Naive(0)]

\* the return statement of parse_order_filled_event
ParseReturn(ev, outcome, amounts, maker, taker, trader, time) ==
    IF trader.k = "raise" THEN ParseRaised
    ELSE IF ~(outcome.some /\ outcome.s # <<>>) THEN ParsedNone
    ELSE IF time.k = "raise" THEN ParseRaised
    ELSE IF ev.Transaction.k = "null" THEN ParseRaised
    ELSE Parsed(Position(
            outcome.s, trader.s,
            IF maker.some THEN maker.s ELSE <<>>,
            IF taker.some THEN taker.s ELSE <<>>,
            amounts.tokens, amounts.price, time.ts,
            IF ev.Transaction.k = "dict" THEN ev.Transaction.Hash ELSE "",
            IF ev.Block.k = "dict" THEN ev.Block.Number ELSE 0))

\* from the trader addresses on
ParseAddresses(ev, nowT, legs, amounts, maker, taker) ==
    ParseReturn(ev, legs.outcome, amounts, maker, taker,
                TraderFallback(ev, TraderOf(legs.usdc_given, maker, taker)),
                TimestampOf(ev, nowT))

\* from the mapping of the two amounts to usdc_paid and tokens_amount on
ParsePaid(ev, nowT, arg_dict, legs, usdc_paid, tokens_amount) ==
    IF NoAmounts(usdc_paid, tokens_amount) THEN ParsedNone
    ELSE ParseAddresses(ev, nowT, legs,
                        ProcessTradeAmounts(usdc_paid, tokens_amount),
                        AddressArg(arg_dict, "maker"), AddressArg(arg_dict, "taker"))

\* from the two amount loops on
ParseAmounts(ev, nowT, arg_dict, legs, maker_amount, taker_amount) ==
    IF maker_amount.k = "raise" \/ taker_amount.k = "raise" THEN ParseRaised
    ELSE ParsePaid(ev, nowT, arg_dict, legs,
                   UsdcPaid(legs.usdc_given, maker_amount, taker_amount),
                   TokensAmount(legs.usdc_given, maker_amount, taker_amount))

\* from the choice of the stablecoin leg on
ParseLegs(ev, nowT, arg_dict, legs) ==
    IF legs.fail THEN ParsedNone
    ELSE ParseAmounts(ev, nowT, arg_dict, legs,
                      ProbeAmount(arg_dict, MakerAmountKeys, 1),
                      ProbeAmount(arg_dict, TakerAmountKeys, 1))

\* from the argument dict on
ParseArgs(ev, nowT, ad) ==
    IF ad.k = "raise" THEN ParseRaised
    ELSE ParseLegs(ev, nowT, ad.d,
                   Legs(AssetIdArg(ad.d, "makerAssetId"),
                        AssetIdArg(ad.d, "takerAssetId")))

\* the body of parse_order_filled_event's try block
ParseBody(ev, nowT) == ParseArgs(ev, nowT, ArgDict(ev))

\* parse_order_filled_event without its except clause
ParseUncaught(ev, nowT) == ParseBody(ev, nowT)

\* the except clause: any exception of the body is caught and None returned
Caught(r) == IF r.k = "raise" THEN ParsedNone ELSE r

\* parse_order_filled_event
ParseOrderFilledEvent(ev, nowT) == Caught(ParseBody(ev, nowT))

-----------------------------------------------------------------------------
(* The raw events the model draws from                                     *)

\* the block times of the events, and the wall clock, which is later
BlockTimes == {1, 2}
WallClock == 3

Arg(name, value) ==
    [hasName |-> TRUE, Name |-> name, hasValue |-> TRUE, Value |-> value]
\* an argument entry without a "Value" key
ArgNoValue(name) ==
    [hasName |-> TRUE, Name |-> name, hasValue |-> FALSE, Value |-> JNull]

\* a tagged value container with one populated variant
Tagged(key, value) == JDict(<<[k |-> key, v |-> value]>>)

TimeStr(fmt, t) == [k |-> "str", fmt |-> fmt, t |-> t]
TimeMissing == [k |-> "missing", fmt |-> "empty", t |-> 0]
BlockDict(time) == [k |-> "dict", Time |-> time, Number |-> 7]
BlockNull == [k |-> "null", Time |-> TimeMissing, Number |-> 0]
FromStr(str) == [k |-> "str", s |-> str]
FromMissing == [k |-> "missing", s |-> <<>>]
TxDict(from) == [k |-> "dict", From |-> from, Hash |-> "0xhash"]
TxNull == [k |-> "null", From |-> FromMissing, Hash |-> ""]

RawEvent(arguments, block, tx) ==
    [Arguments |-> arguments, Block |-> block, Transaction |-> tx]
ArgList(items) == [k |-> "list", items |-> items]
ArgsNull == [k |-> "null", items |-> <<>>]
ArgsMissing == [k |-> "missing", items |-> <<>>]

Asset12345 == <<"1", "2", "3", "4", "5">>
Asset777 == <<"7", "7", "7">>
AddrAA == <<"0", "x", "A", "A">>
AddrBB == <<"0", "x", "B", "B">>
AddrFF == <<"0", "x", "F", "F">>

\* the values an asset id argument carries: the stablecoin id in its three
\* spellings, an outcome token id, a container with no populated variant
AssetIdValues ==
    {Tagged("bigInteger", JStr(<<"0">>)), Tagged("string", JStr(<<"0", "x", "0">>)),
     Tagged("string", JStr(<<" ", "0", " ">>)), Tagged("bigInteger", JStr(Asset12345)),
     Tagged("integer", JInt(0)), JDict(<<>>)}

\* the values an amount argument carries: fixed-point amounts, zero, text that
\* is no number, a bool
AmountValues ==
    {Tagged("bigInteger", JStr(<<"1", "0", "0", "0", "0", "0", "0">>)),
     Tagged("bigInteger", JStr(<<"2", "0", "0", "0", "0", "0", "0">>)),
     Tagged("integer", JInt(0)),
     Tagged("string", JStr(<<"a", "b", "c">>)),
     Tagged("bool", JBool(TRUE))}

\* zero or one argument of that name
Optional(name, values) == {<<>>} \cup {<<Arg(name, v)>> : v \in values}

\* the ways an event is malformed outside its arguments' values
Shapes ==
    {"ok", "args_null", "args_missing", "no_value", "block_null", "tx_null",
     "time_bad", "time_missing", "time_naive", "from_missing"}

Shaped(shape, items) ==
    RawEvent(
        CASE shape = "args_null" -> ArgsNull
          [] shape = "args_missing" -> ArgsMissing
          [] shape = "no_value" -> ArgList(items \o <<ArgNoValue("orderHash")>>)
          [] OTHER -> ArgList(items),
        CASE shape = "block_null" -> BlockNull
          [] shape = "time_bad" -> BlockDict(TimeStr("bad", 0))
          [] shape = "time_missing" -> BlockDict(TimeMissing)
          [] shape = "time_naive" -> BlockDict(TimeStr("naive", 1))
          [] OTHER -> BlockDict(TimeStr("z", 1)),
        CASE shape = "tx_null" -> TxNull
          [] shape = "from_missing" -> TxDict(FromMissing)
          [] OTHER -> TxDict(FromStr(AddrFF)))

\* the values a candidate amount argument carries: three amounts that tell
\* the candidates apart, text that is no number, a container with nothing
\* populated, a bool
CandidateValues ==
    {Tagged("bigInteger", JStr(<<"1", "0", "0", "0", "0", "0", "0">>)),
     Tagged("bigInteger", JStr(<<"2", "0", "0", "0", "0", "0", "0">>)),
     Tagged("bigInteger", JStr(<<"3", "0", "0", "0", "0", "0", "0">>)),
     Tagged("string", JStr(<<"a", "b", "c">>)),
     Tagged("integer", JNull),
     Tagged("bool", JBool(TRUE))}

\* events whose amounts arrive under several of the candidate names, the
\* later candidates listed before the earlier ones
CandidateEvents ==
    {Shaped("ok",
            <<Arg("makerAssetId", Tagged("bigInteger", JStr(<<"0">>))),
              Arg("takerAssetId", Tagged("bigInteger", JStr(Asset12345)))>>
            \o mfd \o mam \o maf \o am \o taf) :
        mfd \in Optional("makerFilledAmount", CandidateValues),
        mam \in Optional("makerAmount", CandidateValues),
        maf \in Optional("makerAmountFilled", CandidateValues),
        am \in Optional("amount", CandidateValues),
        taf \in Optional("takerAmountFilled", CandidateValues)}

\* the events of every shape, each amount under its first candidate name
ShapedEvents ==
    {Shaped(shape, ma \o ta \o mam \o tam \o mk \o tk) :
        shape \in Shapes,
        ma \in Optional("makerAssetId", AssetIdValues),
        ta \in Optional("takerAssetId", AssetIdValues),
        mam \in Optional("makerAmountFilled", AmountValues),
        tam \in Optional("takerAmountFilled", AmountValues),
        mk \in Optional("maker", {Tagged("address", JStr(AddrAA))}),
        tk \in Optional("taker", {Tagged("address", JStr(AddrBB))})}

\* the events handed to the parser
ParseEvents == ShapedEvents \cup CandidateEvents

\* the event of the stablecoin-leg example: makerAssetId "0", takerAssetId
\* "12345", makerAmountFilled 1_000_000, takerAmountFilled 2_000_000
ExampleEvent ==
    Shaped("ok",
        <<Arg("makerAssetId", Tagged("bigInteger", JStr(<<"0">>))),
          Arg("takerAssetId", Tagged("bigInteger", JStr(Asset12345))),
          Arg("makerAmountFilled",
              Tagged("bigInteger", JStr(<<"1", "0", "0", "0", "0", "0", "0">>))),
          Arg("takerAmountFilled",
              Tagged("bigInteger", JStr(<<"2", "0", "0", "0", "0", "0", "0">>))),
          Arg("maker", Tagged("address", JStr(AddrAA))),
          Arg("taker", Tagged("address", JStr(AddrBB)))>>)

-----------------------------------------------------------------------------
(* bitquery_client.py: the upstream client                                 *)
(* A query's answer is whatever list of events the API sends back; the     *)
(* client hands it on as it is, and turns its own failures into [].        *)

\* the methods BitqueryClient defines
ClientMethods ==
    {"get_order_filled_events", "get_order_filled_events_by_asset_id",
     "get_order_filled_events_by_trader", "get_token_registered_events",
     "get_order_matched_events", "get_token_registered_by_asset_id",
     "get_question_events_by_condition_id", "get_question_data_by_question_id",
     "get_recent_question_initialized_events"}

\* get_order_filled_events
GetOrderFilledEvents(response) == response

\* get_order_filled_events_by_asset_id
GetOrderFilledEventsByAssetId(response) == response

\* a slip: the query is made whatever the address
GetOrderFilledEventsByTraderAlways(trader_address, response) == response

\* get_order_filled_events_by_trader: no query for an empty address
GetOrderFilledEventsByTrader(trader_address, response) ==
    IF trader_address = <<>> THEN <<>> ELSE response

-----------------------------------------------------------------------------
(* position_tracker.py: the aggregator                                     *)

\* what an operation hands back: k is "ok", "none" (None) or "raise"; out is
\* the list of positions, seen the number of events parsed, price the market
\* price, book the order book, summary the trader summary, top the ranking
\* the dict get_trader_summary returns; positions is meaningful only when
\* "positions" is one of the keys
NoSummary ==
    [keys |-> {}, trader |-> <<>>, total_positions |-> 0,
     total_volume |-> [num |-> 0, den |-> 1], avg_price |-> [num |-> 0, den |-> 1],
     unique_assets |-> 0, positions |-> <<>>]

\* the dict get_top_traders_and_assets returns
NoTop == [traders |-> <<>>, assets |-> <<>>, total_trades |-> 0, total_parsed |-> 0]

NoBook ==
    [keys |-> {}, bids |-> <<>>, asks |-> <<>>, snapshot |-> Naive(0),
     has_snapshot |-> FALSE, total_events |-> 0, total_positions |-> 0,
     bid_levels |-> <<>>, ask_levels |-> <<>>]
Ret(k, out, seen, price, book) ==
    [k |-> k, out |-> out, seen |-> seen, price |-> price, book |-> book,
     summary |-> NoSummary, top |-> NoTop]
Returned(out, seen) == Ret("ok", out, seen, FZero, NoBook)
Raised == Ret("raise", <<>>, 0, FZero, NoBook)

\* the i-th event of a batch is parsed one clock tick after the one before
ParseAt(events, i, clock) == ParseOrderFilledEvent(events[i], clock + (i - 1))

\* positions.append(position) if the event parsed
KeepPosition(collected, r) == IF r.k = "pos" THEN Append(collected, r.p) ELSE collected

\* position.trader_address.lower() == trader_address_normalized
TraderMatches(p, normalized) == Lower(p.trader_address) = normalized

\* position.maker_address.lower() == maker_address_normalized
MakerMatches(p, normalized) == Lower(p.maker_address) = normalized

\* len(positions) >= limit, tested after the append
LimitReached(collected, limit) == Len(collected) >= limit

\* the loop of track_trader from event i on; TrackStep is its body for the
\* parse result r, TrackAppend the append and the test of the limit
RECURSIVE TrackLoop(_, _, _, _, _, _)
TrackAppend(events, i, more, normalized, limit, clock) ==
    IF LimitReached(more, limit) THEN Returned(more, i)
    ELSE TrackLoop(events, i + 1, more, normalized, limit, clock)

TrackStep(events, i, collected, normalized, limit, clock, r) ==
    IF r.k = "pos" /\ TraderMatches(r.p, normalized)
    THEN TrackAppend(events, i, Append(collected, r.p), normalized, limit, clock)
    ELSE TrackLoop(events, i + 1, collected, normalized, limit, clock)

TrackLoop(events, i, collected, normalized, limit, clock) ==
    IF i > Len(events) THEN Returned(collected, Len(events))
    ELSE TrackStep(events, i, collected, normalized, limit, clock,
                   ParseAt(events, i, clock))

\* track_trader
TrackTraderOp(trader_address, limit, response, clock) ==
    TrackLoop(GetOrderFilledEventsByTrader(Lower(trader_address), response), 1,
              <<>>, Lower(trader_address), limit, clock)

\* the loop of follow_trader_positions from event i on
RECURSIVE FollowLoop(_, _, _, _, _, _)
FollowAppend(events, i, more, normalized, limit, clock) ==
    IF LimitReached(more, limit) THEN Returned(more, i)
    ELSE FollowLoop(events, i + 1, more, normalized, limit, clock)

FollowStep(events, i, collected, normalized, limit, clock, r) ==
    IF r.k = "pos" /\ MakerMatches(r.p, normalized)
    THEN FollowAppend(events, i, Append(collected, r.p), normalized, limit, clock)
    ELSE FollowLoop(events, i + 1, collected, normalized, limit, clock)

FollowLoop(events, i, collected, normalized, limit, clock) ==
    IF i > Len(events) THEN Returned(collected, Len(events))
    ELSE FollowStep(events, i, collected, normalized, limit, clock,
                    ParseAt(events, i, clock))

\* follow_trader_positions: self.client.follow_trader is looked up on the
\* client, which raises AttributeError when the client has no such method
FollowTraderPositionsOp(maker_address, limit, since_hours, response, clock) ==
    IF Lower(maker_address) = <<>> THEN Returned(<<>>, 0)
    ELSE IF "follow_trader" \notin ClientMethods THEN Raised
    ELSE FollowLoop(response, 1, <<>>, Lower(maker_address), limit, clock)

\* the debug branch of get_recent_positions for the event at index 0 that did
\* not parse: len(args) raises TypeError when "Arguments" is null
DebugLogRaises(ev) == ev.Arguments.k = "null"

\* the loop of get_recent_positions from event i on
RECURSIVE RecentLoop(_, _, _, _)
RecentStep(events, i, collected, clock, r) ==
    IF r.k = "pos" THEN RecentLoop(events, i + 1, Append(collected, r.p), clock)
    ELSE IF i = 1 /\ DebugLogRaises(events[i]) THEN Raised
    ELSE RecentLoop(events, i + 1, collected, clock)

RecentLoop(events, i, collected, clock) ==
    IF i > Len(events) THEN Returned(collected, Len(events))
    ELSE RecentStep(events, i, collected, clock, ParseAt(events, i, clock))

\* get_recent_positions
GetRecentPositionsOp(limit, response, clock) ==
    RecentLoop(GetOrderFilledEvents(response), 1, <<>>, clock)

\* a slip: the upstream's filter is trusted and no position is re-verified
AssetMatchesAny(p, asset_id) == TRUE

\* str(position.asset_id).strip() == asset_id_normalized
AssetMatches(p, asset_id) == Strip(p.asset_id) = Strip(asset_id)

\* the positions of a batch that are for one asset, in batch order
RECURSIVE AssetLoop(_, _, _, _, _)
AssetStep(collected, asset_id, r) ==
    IF r.k = "pos" /\ AssetMatches(r.p, asset_id)
    THEN Append(collected, r.p) ELSE collected

AssetLoop(events, i, collected, asset_id, clock) ==
    IF i > Len(events) THEN collected
    ELSE AssetLoop(events, i + 1,
                   AssetStep(collected, asset_id, ParseAt(events, i, clock)),
                   asset_id, clock)

\* get_positions_by_asset
GetPositionsByAssetOp(asset_id, response, clock) ==
    Returned(AssetLoop(GetOrderFilledEventsByAssetId(response), 1, <<>>,
                       asset_id, clock),
             Len(GetOrderFilledEventsByAssetId(response)))

\* get_positions_by_asset on a client whose answer is None
GetPositionsByAssetNoneOp(asset_id) == Returned(<<>>, 0)

\* comparing two datetimes raises TypeError when one is offset-aware and the
\* other offset-naive
Comparable(a, b) == a.aware = b.aware

\* every comparison that a sort or a max over these timestamps makes is
\* between comparable values
AllComparable(ps) ==
    \A i, j \in 1..Len(ps) : Comparable(ps[i].timestamp, ps[j].timestamp)

\* max(positions, key=timestamp): the first position with the largest key
MaxByTimestamp(ps) ==
    LET best == {i \in 1..Len(ps) : \A j \in 1..Len(ps) :
                    ps[j].timestamp.t <= ps[i].timestamp.t}
    IN  ps[CHOOSE i \in best : \A j \in best : i <= j]

\* calculate_market_price
LatestPrice(ps, seen) ==
    IF ps = <<>> THEN Ret("none", <<>>, seen, FZero, NoBook)
    ELSE IF ~AllComparable(ps) THEN Raised
    ELSE Ret("ok", <<>>, seen, MaxByTimestamp(ps).price, NoBook)

CalculateMarketPriceOp(asset_id, response, clock) ==
    LatestPrice(GetPositionsByAssetOp(asset_id, response, clock).out,
                Len(response))

\* float comparison and addition on fractions
FracLess(x, y) == x.num * y.den < y.num * x.den
FracAdd(x, y) == Frac(x.num * y.den + y.num * x.den, x.den * y.den)

\* list.sort(key=timestamp): stable, oldest first
RECURSIVE InsertByTimestamp(_, _)
InsertByTimestamp(sorted, p) ==
    IF sorted = <<>> THEN <<p>>
    ELSE IF p.timestamp.t < sorted[Len(sorted)].timestamp.t
    THEN Append(InsertByTimestamp(SubSeq(sorted, 1, Len(sorted) - 1), p),
                sorted[Len(sorted)])
    ELSE Append(sorted, p)

RECURSIVE SortByTimestamp(_)
SortByTimestamp(ps) ==
    IF ps = <<>> THEN <<>>
    ELSE InsertByTimestamp(SortByTimestamp(SubSeq(ps, 1, Len(ps) - 1)), ps[Len(ps)])

\* a slip: the maker stands in as the seller when an address is unknown
SellerOrMaker(p) ==
    IF p.maker_address # <<>> /\ p.taker_address # <<>>
            /\ Lower(p.trader_address) = Lower(p.maker_address)
    THEN p.taker_address
    ELSE p.maker_address

\* the seller of a trade: the party that is not the buyer; None ("") when
\* the maker or the taker address is unknown
SellerAddress(p) ==
    IF p.maker_address # <<>> /\ p.taker_address # <<>>
    THEN IF p.trader_address # <<>>
         THEN IF Lower(p.trader_address) = Lower(p.maker_address)
              THEN p.taker_address
              ELSE p.maker_address
         ELSE p.maker_address
    ELSE <<>>

\* a slip: every trade opens a level of its own
AddAsNewLevel(levels, p) ==
    Append(levels, [price |-> p.price, amount |-> p.amount, count |-> 1,
                    last_trade_time |-> p.timestamp])

\* one trade added to the levels of a side: levels is the dict price -> level
\* in insertion order
AddToLevels(levels, p) ==
    IF \E i \in 1..Len(levels) : levels[i].price = p.price
    THEN [i \in 1..Len(levels) |->
            IF levels[i].price = p.price
            THEN [price |-> p.price,
                  amount |-> FracAdd(levels[i].amount, p.amount),
                  count |-> levels[i].count + 1,
                  last_trade_time |->
                      IF p.timestamp.t > levels[i].last_trade_time.t
                      THEN p.timestamp ELSE levels[i].last_trade_time]
            ELSE levels[i]]
    ELSE Append(levels, [price |-> p.price, amount |-> p.amount, count |-> 1,
                         last_trade_time |-> p.timestamp])

\* bid_levels after the trades ps[1..n]
RECURSIVE BidLevels(_, _)
BidLevels(ps, n) ==
    IF n = 0 THEN <<>>
    ELSE IF ps[n].trader_address # <<>>
    THEN AddToLevels(BidLevels(ps, n - 1), ps[n])
    ELSE BidLevels(ps, n - 1)

\* ask_levels after the trades ps[1..n]
RECURSIVE AskLevels(_, _)
AskLevels(ps, n) ==
    IF n = 0 THEN <<>>
    ELSE IF SellerAddress(ps[n]) # <<>>
    THEN AddToLevels(AskLevels(ps, n - 1), ps[n])
    ELSE AskLevels(ps, n - 1)

\* sorted(levels.items()): by price, lowest first (prices are distinct keys)
RECURSIVE InsertByPrice(_, _)
InsertByPrice(sorted, level) ==
    IF sorted = <<>> THEN <<level>>
    ELSE IF FracLess(level.price, sorted[Len(sorted)].price)
    THEN Append(InsertByPrice(SubSeq(sorted, 1, Len(sorted) - 1), level),
                sorted[Len(sorted)])
    ELSE Append(sorted, level)

RECURSIVE SortByPrice(_)
SortByPrice(levels) ==
    IF levels = <<>> THEN <<>>
    ELSE InsertByPrice(SortByPrice(SubSeq(levels, 1, Len(levels) - 1)),
                       levels[Len(levels)])

\* a slip: the bids are listed lowest first
Unreversed(seq) == seq

Reverse(seq) == [i \in 1..Len(seq) |-> seq[Len(seq) + 1 - i]]

\* a level as the result lists it
Listed(level) ==
    [price |-> level.price, amount |-> level.amount, count |-> level.count]

\* a slip: the empty result carries the two totals as well
EmptyBookCounted ==
    [keys |-> {"bids", "asks", "asset_id", "total_events", "total_positions",
               "snapshot_time"},
     bids |-> <<>>, asks |-> <<>>, snapshot |-> Naive(0), has_snapshot |-> FALSE,
     total_events |-> 0, total_positions |-> 0,
     bid_levels |-> <<>>, ask_levels |-> <<>>]

\* the dict returned when there are no events or no positions
EmptyBook ==
    [keys |-> {"bids", "asks", "asset_id", "snapshot_time"},
     bids |-> <<>>, asks |-> <<>>, snapshot |-> Naive(0), has_snapshot |-> FALSE,
     total_events |-> 0, total_positions |-> 0,
     bid_levels |-> <<>>, ask_levels |-> <<>>]

\* the dict get_orderbook returns for the positions ps, sorted by time;
\* bid_levels and ask_levels are the method's two local dicts as they stand
\* at the return, listed by price
BookOf(events, ps, bid_levels, ask_levels) ==
    [keys |-> {"bids", "asks", "asset_id", "total_events", "total_positions",
               "snapshot_time"},
     bids |-> [i \in 1..Len(bid_levels) |-> Listed(Reverse(bid_levels)[i])],
     asks |-> [i \in 1..Len(ask_levels) |-> Listed(ask_levels[i])],
     snapshot |-> MaxByTimestamp(ps).timestamp,
     has_snapshot |-> TRUE,
     total_events |-> Len(events),
     total_positions |-> Len(ps),
     bid_levels |-> bid_levels, ask_levels |-> ask_levels]

\* get_orderbook from the sort on
SortedBook(events, sorted) ==
    Ret("ok", sorted, Len(events), FZero,
        BookOf(events, sorted,
               SortByPrice(BidLevels(sorted, Len(sorted))),
               SortByPrice(AskLevels(sorted, Len(sorted)))))

\* get_orderbook from the parsed positions on
BookOfPositions(events, ps) ==
    IF ps = <<>> THEN Ret("ok", <<>>, Len(events), FZero, EmptyBook)
    ELSE IF ~AllComparable(ps) THEN Raised
    ELSE SortedBook(events, SortByTimestamp(ps))

\* get_orderbook from the events on
BookOfEvents(asset_id, events, clock) ==
    IF events = <<>> THEN Ret("ok", <<>>, 0, FZero, EmptyBook)
    ELSE BookOfPositions(events, AssetLoop(events, 1, <<>>, asset_id, clock))

\* get_orderbook
GetOrderbookOp(asset_id, limit, response, clock) ==
    BookOfEvents(asset_id, GetOrderFilledEventsByAssetId(response), clock)

-----------------------------------------------------------------------------
(* position_tracker.py: get_trader_summary                                 *)

\* float multiplication on fractions
FracMul(x, y) == Frac(x.num * y.num, x.den * y.den)

\* the optional positions argument
NoneGiven == [given |-> FALSE, ps |-> <<>>]
Given(ps) == [given |-> TRUE, ps |-> ps]

\* [p for p in self.positions if p.trader_address.lower() == trader_address.lower()]
RECURSIVE HistoryOf(_, _, _)
HistoryOf(history, n, trader_address) ==
    IF n = 0 THEN <<>>
    ELSE IF Lower(history[n].trader_address) = Lower(trader_address)
    THEN Append(HistoryOf(history, n - 1, trader_address), history[n])
    ELSE HistoryOf(history, n - 1, trader_address)

\* sum(p.amount * p.price for p in positions[:n])
RECURSIVE TotalVolume(_, _)
TotalVolume(ps, n) ==
    IF n = 0 THEN FZero
    ELSE FracAdd(TotalVolume(ps, n - 1), FracMul(ps[n].amount, ps[n].price))

\* sum(p.price for p in positions[:n])
RECURSIVE PriceTotal(_, _)
PriceTotal(ps, n) ==
    IF n = 0 THEN FZero ELSE FracAdd(PriceTotal(ps, n - 1), ps[n].price)

\* a slip: the average weighted by volume
AvgPriceWeighted(ps) ==
    IF PriceTotal(ps, Len(ps)) = FZero THEN FZero
    ELSE FracDiv(TotalVolume(ps, Len(ps)), PriceTotal(ps, Len(ps)))

\* sum(p.price for p in positions) / len(positions), positions not empty
AvgPrice(ps) == FracDiv(PriceTotal(ps, Len(ps)), Frac(Len(ps), 1))

\* len(set(p.asset_id for p in positions))
UniqueAssets(ps) == Cardinality({ps[i].asset_id : i \in 1..Len(ps)})

\* the summary of the positions ps
SummaryOf(trader_address, ps) ==
    IF ps = <<>>
    THEN [keys |-> {"trader", "total_positions", "total_volume", "avg_price",
                    "unique_assets"},
          trader |-> trader_address, total_positions |-> 0,
          total_volume |-> FZero, avg_price |-> FZero, unique_assets |-> 0,
          positions |-> <<>>]
    ELSE [keys |-> {"trader", "total_positions", "total_volume", "avg_price",
                    "unique_assets", "positions"},
          trader |-> trader_address, total_positions |-> Len(ps),
          total_volume |-> TotalVolume(ps, Len(ps)), avg_price |-> AvgPrice(ps),
          unique_assets |-> UniqueAssets(ps), positions |-> ps]

\* what get_trader_summary hands back
Summarized(summary) == [Returned(<<>>, 0) EXCEPT !.summary = summary]

\* get_trader_summary: trader_address is a str
GetTraderSummaryOp(trader_address, supplied, history) ==
    Summarized(SummaryOf(trader_address,
                         IF supplied.given THEN supplied.ps
                         ELSE HistoryOf(history, Len(history), trader_address)))

-----------------------------------------------------------------------------
(* position_tracker.py: get_top_traders_and_assets                         *)

\* every event of the batch parsed, the Positions kept in batch order
RECURSIVE ParseAll(_, _, _, _)
ParseAll(events, i, collected, clock) ==
    IF i > Len(events) THEN collected
    ELSE ParseAll(events, i + 1,
                  KeepPosition(collected, ParseAt(events, i, clock)), clock)

\* the entry a group starts with
NewStats(key) ==
    [key |-> key, total_volume |-> FZero, total_trades |-> 0, members |-> {},
     avg_price |-> FZero, total_amount |-> FZero]

\* one position added to its group's entry; member is what goes into the
\* entry's set (the asset id for a trader, the trader for an asset)
Accumulate(stats, p, member) ==
    [stats EXCEPT !.total_volume = FracAdd(@, FracMul(p.amount, p.price)),
                  !.total_trades = @ + 1,
                  !.members = @ \cup {member},
                  !.total_amount = FracAdd(@, p.amount)]

\* the dict of entries, in insertion order, after one more position
AddToStats(all, key, p, member) ==
    IF \E i \in 1..Len(all) : all[i].key = key
    THEN [i \in 1..Len(all) |->
            IF all[i].key = key THEN Accumulate(all[i], p, member) ELSE all[i]]
    ELSE Append(all, Accumulate(NewStats(key), p, member))

\* trader_stats after positions[:n]
RECURSIVE TraderStats(_, _)
TraderStats(ps, n) ==
    IF n = 0 THEN <<>>
    ELSE IF Lower(ps[n].trader_address) = <<>> THEN TraderStats(ps, n - 1)
    ELSE AddToStats(TraderStats(ps, n - 1), Lower(ps[n].trader_address), ps[n],
                    ps[n].asset_id)

\* asset_stats after positions[:n]
RECURSIVE AssetStats(_, _)
AssetStats(ps, n) ==
    IF n = 0 THEN <<>>
    ELSE IF Strip(ps[n].asset_id) = <<>> THEN AssetStats(ps, n - 1)
    ELSE AddToStats(AssetStats(ps, n - 1), Strip(ps[n].asset_id), ps[n],
                    Lower(ps[n].trader_address))

\* a slip: the plain mean of the trades' volumes
VolumePerTrade(stats) ==
    IF stats.total_trades > 0
    THEN FracDiv(stats.total_volume, Frac(stats.total_trades, 1)) ELSE FZero

\* total_volume / total_amount if total_amount > 0 else 0.0
VolumeWeightedPrice(stats) ==
    IF stats.total_trades > 0 /\ FracLess(FZero, stats.total_amount)
    THEN FracDiv(stats.total_volume, stats.total_amount) ELSE FZero

\* the entries with their averages
WithAverages(all) ==
    [i \in 1..Len(all) |-> [all[i] EXCEPT !.avg_price = VolumeWeightedPrice(all[i])]]

\* sorted(..., key=total_volume, reverse=True): stable, largest first
RECURSIVE InsertByVolume(_, _)
InsertByVolume(sorted, stats) ==
    IF sorted = <<>> THEN <<stats>>
    ELSE IF FracLess(sorted[Len(sorted)].total_volume, stats.total_volume)
    THEN Append(InsertByVolume(SubSeq(sorted, 1, Len(sorted) - 1), stats),
                sorted[Len(sorted)])
    ELSE Append(sorted, stats)

RECURSIVE SortByVolume(_)
SortByVolume(all) ==
    IF all = <<>> THEN <<>>
    ELSE InsertByVolume(SortByVolume(SubSeq(all, 1, Len(all) - 1)), all[Len(all)])

\* seq[:count] for count >= 0
Take(seq, count) == SubSeq(seq, 1, IF count < Len(seq) THEN count ELSE Len(seq))

\* what get_top_traders_and_assets hands back
Ranked(top) == [Returned(<<>>, top.total_trades) EXCEPT !.top = top]

\* get_top_traders_and_assets from the parsed positions on
TopOfPositions(events, ps, top_traders_count, top_assets_count) ==
    Ranked([traders |-> Take(SortByVolume(WithAverages(TraderStats(ps, Len(ps)))),
                             top_traders_count),
            assets |-> Take(SortByVolume(WithAverages(AssetStats(ps, Len(ps)))),
                            top_assets_count),
            total_trades |-> Len(events),
            total_parsed |-> Len(ps)])

\* get_top_traders_and_assets from the events on
TopOfEvents(events, top_traders_count, top_assets_count, clock) ==
    IF events = <<>> THEN Ranked(NoTop)
    ELSE TopOfPositions(events, ParseAll(events, 1, <<>>, clock),
                        top_traders_count, top_assets_count)

\* get_top_traders_and_assets
GetTopTradersAndAssetsOp(limit, top_traders_count, top_assets_count, response, clock) ==
    TopOfEvents(GetOrderFilledEvents(response), top_traders_count,
                top_assets_count, clock)

-----------------------------------------------------------------------------

(* The parser on one event                                                 *)

Pending == [k |-> "pending", p |-> NoPosition]
\* the record of a call: the operation and its inputs, response being the
\* events the upstream API answers with
Call(op, address, asset_id, limit, since_hours, response) ==
    [op |-> op, address |-> address, asset_id |-> asset_id, limit |-> limit,
     since_hours |-> since_hours, response |-> response, supplied |-> NoneGiven,
     top_traders_count |-> 0, top_assets_count |-> 0]
NoCall == Call("none", <<>>, <<>>, 0, 0, <<>>)
NoRet == Ret("none", <<>>, 0, FZero, NoBook)

InitParse ==
    /\ positions = <<>>
    /\ call = NoCall
    /\ ret = NoRet
    /\ event \in ParseEvents
    /\ now = WallClock
    /\ parsed = Pending

\* the caller's view of parse_order_filled_event(event)
CallParse ==
    /\ parsed = Pending
    /\ parsed' = ParseOrderFilledEvent(event, now)
    /\ UNCHANGED <<positions, call, ret, event, now>>

NextParse == CallParse

SpecParse == InitParse /\ [][NextParse]_vars

-----------------------------------------------------------------------------
(* The tracker in use: calls on one PositionTracker                        *)

\* the longest answer of the upstream API and the largest limit a caller
\* passes
MaxBatch == 3
MaxLimit == 2

\* a well-formed OrderFilled event: the maker gives 1 and the taker 2 (in
\* units of 10^6) of the assets named
FilledEvent(maker_asset, taker_asset, time) ==
    RawEvent(
        ArgList(<<Arg("makerAssetId", Tagged("bigInteger", JStr(maker_asset))),
                  Arg("takerAssetId", Tagged("bigInteger", JStr(taker_asset))),
                  Arg("makerAmountFilled",
                      Tagged("bigInteger", JStr(<<"1", "0", "0", "0", "0", "0", "0">>))),
                  Arg("takerAmountFilled",
                      Tagged("bigInteger", JStr(<<"2", "0", "0", "0", "0", "0", "0">>))),
                  Arg("maker", Tagged("address", JStr(AddrAA))),
                  Arg("taker", Tagged("address", JStr(AddrBB)))>>),
        BlockDict(time), TxDict(FromStr(AddrFF)))

\* an OrderFilled event with the given legs, amounts, counterparty arguments,
\* block time and Transaction.From
TradeEvent(maker_asset, taker_asset, maker_amount, taker_amount, parties, time, from) ==
    RawEvent(
        ArgList(<<Arg("makerAssetId", Tagged("bigInteger", JStr(maker_asset))),
                  Arg("takerAssetId", Tagged("bigInteger", JStr(taker_asset))),
                  Arg("makerAmountFilled", Tagged("bigInteger", JStr(maker_amount))),
                  Arg("takerAmountFilled", Tagged("bigInteger", JStr(taker_amount)))>>
                \o parties),
        BlockDict(time), TxDict(from))

\* an event with no maker, no taker and no Transaction.From: its trader is ""
AnonymousEvent ==
    TradeEvent(<<"0">>, Asset777, <<"1", "0", "0", "0", "0", "0", "0">>,
               <<"2", "0", "0", "0", "0", "0", "0">>, <<>>, TimeStr("z", 1),
               FromMissing)

\* an event whose token amount does not parse: its amount and price are 0.0
NoTokensEvent ==
    TradeEvent(<<"0">>, Asset12345, <<"1", "0", "0", "0", "0", "0", "0">>,
               <<"a", "b", "c">>,
               <<Arg("taker", Tagged("address", JStr(<<"0", "x", "C", "C">>)))>>,
               TimeStr("z", 1), FromMissing)

\* an event whose outcome asset id is a blank
BlankAssetEvent == FilledEvent(<<"0">>, <<" ">>, TimeStr("z", 1))

\* an event with no asset id and no amount arguments
EmptyEvent == RawEvent(ArgList(<<>>), BlockDict(TimeStr("z", 1)), TxDict(FromStr(AddrFF)))
\* an event whose "Arguments" is null
NullArgsEvent == RawEvent(ArgsNull, BlockDict(TimeStr("z", 1)), TxDict(FromStr(AddrFF)))

\* the events an answer of the upstream API is made of
BatchEvents ==
    {FilledEvent(<<"0">>, Asset12345, TimeStr("z", t)) : t \in BlockTimes}
    \cup {FilledEvent(Asset12345, <<"0">>, TimeMissing),
          FilledEvent(<<"0">>, Asset777, TimeStr("z", 1)),
          EmptyEvent, NullArgsEvent}

RECURSIVE SeqsUpTo(_, _)
SeqsUpTo(S, n) ==
    IF n = 0 THEN {<<>>}
    ELSE LET shorter == SeqsUpTo(S, n - 1)
         IN  shorter \cup {Append(q, x) : q \in {r \in shorter : Len(r) = n - 1}, x \in S}

Responses == SeqsUpTo(BatchEvents, MaxBatch)
Addresses == {AddrBB, <<"0", "x", "a", "a">>, <<>>}
AssetIds == {Asset12345, <<" ", "7", "7", "7">>}
Limits == 0..MaxLimit
\* since_hours: 0 stands for None
SinceHours == {0, 24}

Init ==
    /\ positions = <<>>
    /\ call = NoCall
    /\ ret = NoRet
    /\ event = ExampleEvent
    /\ now = WallClock
    /\ parsed = Pending

\* PositionTracker(client): each command of cli.py constructs its tracker,
\* and the model follows a tracker through its first operation
NewTracker ==
    /\ positions' = <<>>
    /\ call' = Call("init", <<>>, <<>>, 0, 0, <<>>)
    /\ ret' = NoRet
    /\ UNCHANGED <<event, now, parsed>>

\* an operation that appends what it returns to the history
Appending(c, r) ==
    /\ call.op = "init"
    /\ positions' = positions \o r.out
    /\ call' = c
    /\ ret' = r
    /\ UNCHANGED <<event, now, parsed>>

\* an operation that leaves the history alone
Reading(c, r) ==
    /\ call.op = "init"
    /\ call' = c
    /\ ret' = r
    /\ UNCHANGED <<positions, event, now, parsed>>

\* the answers to follow_trader's query: none is ever given while the client
\* has no such method
FollowResponses ==
    IF "follow_trader" \in ClientMethods THEN Responses ELSE {<<>>}

TrackTrader ==
    \E address \in Addresses, limit \in Limits, response \in Responses :
        Appending(Call("track_trader", address, <<>>, limit, 0, response),
                  TrackTraderOp(address, limit, response, now))

FollowTraderPositions ==
    \E address \in Addresses, limit \in Limits, since \in SinceHours,
       response \in FollowResponses :
        Appending(Call("follow_trader_positions", address, <<>>, limit, since,
                       response),
                  FollowTraderPositionsOp(address, limit, since, response, now))

GetRecentPositions ==
    \E limit \in {20}, response \in Responses :
        Appending(Call("get_recent_positions", <<>>, <<>>, limit, 0, response),
                  GetRecentPositionsOp(limit, response, now))

GetPositionsByAsset ==
    \E asset_id \in AssetIds, response \in Responses :
        Reading(Call("get_positions_by_asset", <<>>, asset_id, 0, 0, response),
                GetPositionsByAssetOp(asset_id, response, now))

\* get_positions_by_asset on a client that answers None instead of a list
GetPositionsByAssetNone ==
    \E asset_id \in AssetIds :
        Reading(Call("get_positions_by_asset(None)", <<>>, asset_id, 0, 0, <<>>),
                GetPositionsByAssetNoneOp(asset_id))

CalculateMarketPrice ==
    \E asset_id \in AssetIds, response \in Responses :
        Reading(Call("calculate_market_price", <<>>, asset_id, 0, 0, response),
                CalculateMarketPriceOp(asset_id, response, now))

GetOrderbook ==
    \E asset_id \in AssetIds, limit \in {200}, response \in Responses :
        Reading(Call("get_orderbook", <<>>, asset_id, limit, 0, response),
                GetOrderbookOp(asset_id, limit, response, now))

\* the events of the answers that get_top_traders_and_assets ranks
TopEvents ==
    {FilledEvent(<<"0">>, Asset12345, TimeStr("z", 1)),
     FilledEvent(Asset12345, <<"0">>, TimeMissing),
     FilledEvent(<<"0">>, Asset777, TimeStr("z", 1)),
     AnonymousEvent, BlankAssetEvent, NoTokensEvent}

TopResponses == SeqsUpTo(TopEvents, MaxBatch)

GetTopTradersAndAssets ==
    \E top_traders_count \in Limits, top_assets_count \in Limits,
       response \in TopResponses :
        Reading([Call("get_top_traders_and_assets", <<>>, <<>>, 20000, 0, response)
                    EXCEPT !.top_traders_count = top_traders_count,
                           !.top_assets_count = top_assets_count],
                GetTopTradersAndAssetsOp(20000, top_traders_count,
                                         top_assets_count, response, now))

Next ==
    \/ NewTracker
    \/ TrackTrader
    \/ FollowTraderPositions
    \/ GetRecentPositions
    \/ GetPositionsByAsset
    \/ GetPositionsByAssetNone
    \/ CalculateMarketPrice
    \/ GetOrderbook
    \/ GetTopTradersAndAssets

Spec == Init /\ [][Next]_vars

-----------------------------------------------------------------------------
(* The order book of one asset                                             *)

\* a fill of asset 12345 in which the maker pays usdc for the taker's tokens
BookEvent(usdc, tokens, parties, time) ==
    TradeEvent(<<"0">>, Asset12345, usdc, tokens, parties, time, FromMissing)

BothParties ==
    <<Arg("maker", Tagged("address", JStr(AddrAA))),
      Arg("taker", Tagged("address", JStr(AddrBB)))>>
MakerOnly == <<Arg("maker", Tagged("address", JStr(AddrAA)))>>

\* the events of the answers an order book is rebuilt from: fills at 0.3,
\* 0.7 and 0.5, a second and a third fill at 0.5 (the third without a
\* taker), a fill with no counterparty at all, a fill at 0.3 and one at 0.7
\* without a block time, a fill of another asset and an event that does not
\* parse
BookEvents ==
    {BookEvent(<<"3", "0", "0", "0", "0", "0">>, <<"1", "0", "0", "0", "0", "0", "0">>,
               BothParties, TimeStr("z", 1)),
     BookEvent(<<"7", "0", "0", "0", "0", "0">>, <<"1", "0", "0", "0", "0", "0", "0">>,
               BothParties, TimeStr("z", 2)),
     BookEvent(<<"5", "0", "0", "0", "0", "0">>, <<"1", "0", "0", "0", "0", "0", "0">>,
               BothParties, TimeStr("z", 1)),
     BookEvent(<<"1", "0", "0", "0", "0", "0", "0">>, <<"2", "0", "0", "0", "0", "0", "0">>,
               BothParties, TimeStr("z", 2)),
     BookEvent(<<"5", "0", "0", "0", "0", "0">>, <<"1", "0", "0", "0", "0", "0", "0">>,
               MakerOnly, TimeStr("z", 1)),
     BookEvent(<<"5", "0", "0", "0", "0", "0">>, <<"1", "0", "0", "0", "0", "0", "0">>,
               <<>>, TimeStr("z", 2)),
     BookEvent(<<"3", "0", "0", "0", "0", "0">>, <<"1", "0", "0", "0", "0", "0", "0">>,
               BothParties, TimeMissing),
     BookEvent(<<"7", "0", "0", "0", "0", "0">>, <<"1", "0", "0", "0", "0", "0", "0">>,
               BothParties, TimeMissing),
     FilledEvent(<<"0">>, Asset777, TimeStr("z", 1)),
     EmptyEvent}

BookResponses == SeqsUpTo(BookEvents, MaxBatch)

BookOfAsset ==
    \E asset_id \in AssetIds, response \in BookResponses :
        Reading(Call("get_orderbook", <<>>, asset_id, 200, 0, response),
                GetOrderbookOp(asset_id, 200, response, now))

NextBook ==
    \/ NewTracker
    \/ BookOfAsset

SpecBook == Init /\ [][NextBook]_vars

-----------------------------------------------------------------------------
(* process_trade_amounts on its own: one call on two raw amounts           *)

MaxAmount == 3

\* process_trade_amounts(usdc_paid, tokens_amount) on raw values: each is
\* resolved and converted as extract_value does, whose exception leaves
AmountsOf(usdc_value, token_value) ==
    IF usdc_value.k = "raise" \/ token_value.k = "raise"
    THEN [k |-> "raise", usdc |-> FZero, tokens |-> FZero, price |-> FZero]
    ELSE [k |-> "ok"] @@ ProcessTradeAmounts(usdc_value, token_value)

ProcessTradeAmountsOf(usdc_paid, tokens_amount) ==
    AmountsOf(ExtractValue(usdc_paid), ExtractValue(tokens_amount))

\* amounts as the callers hand them over: absent, an integer, the text of
\* an integer in decimal or in hexadecimal, text that is no number, and
\* tagged containers of these
RawAmounts ==
    {JNull} \cup {JInt(n) : n \in 0..MaxAmount}
    \cup {JStr(<<>>), JStr(<<"a", "b", "c">>), JStr(<<" ", "2", " ">>),
          JStr(<<"0", "x", "0">>), JStr(<<"0", "x", "3">>)}
    \cup {Tagged("bigInteger", JStr(<<"1">>)), Tagged("integer", JInt(0)),
          Tagged("integer", JNull)}

AmountsCall(usdc_paid, tokens_amount) ==
    [op |-> "process_trade_amounts", usdc_paid |-> usdc_paid,
     tokens_amount |-> tokens_amount]

AmountsPending == [k |-> "pending", usdc |-> FZero, tokens |-> FZero, price |-> FZero]

InitAmounts ==
    /\ positions = <<>>
    /\ \E usdc_paid \in RawAmounts, tokens_amount \in RawAmounts :
            call = AmountsCall(usdc_paid, tokens_amount)
    /\ ret = AmountsPending
    /\ event = EmptyEvent
    /\ now = WallClock
    /\ parsed = Pending

CallProcessTradeAmounts ==
    /\ ret = AmountsPending
    /\ ret' = ProcessTradeAmountsOf(call.usdc_paid, call.tokens_amount)
    /\ UNCHANGED <<positions, call, event, now, parsed>>

NextAmounts == CallProcessTradeAmounts

SpecAmounts == InitAmounts /\ [][NextAmounts]_vars

-----------------------------------------------------------------------------
(* extract_value and extract_string_value on their own: one call on one    *)
(* raw value                                                               *)

\* the primitives a container's variant can hold
Primitives ==
    {JNull, JBool(TRUE), JBool(FALSE), JFloat(2), JBytes(<<"0", "0", "f", "f">>)}
    \cup {JInt(n) : n \in 0..MaxAmount}
    \cup {JStr(<<>>), JStr(<<" ">>), JStr(<<"1", "2">>), JStr(<<" ", "2", " ">>),
          JStr(<<"0", "x", "1", "f">>), JStr(<<"0", "x", "Z", "Z">>),
          JStr(<<"0", "x">>), JStr(<<"a", "b", "c">>)}

\* tagged value containers: one variant holding a primitive, no variant at
\* all, variants that are all null, a null variant before a populated one,
\* and a container inside a container
Containers ==
    {Tagged(VariantKeys[i], p) : i \in 1..Len(VariantKeys), p \in Primitives}
    \cup {JDict(<<>>),
          JDict(<<[k |-> "integer", v |-> JNull], [k |-> "bool", v |-> JNull]>>),
          JDict(<<[k |-> "bigInteger", v |-> JNull], [k |-> "integer", v |-> JInt(1)]>>),
          Tagged("integer", Tagged("string", JStr(<<"1", "2">>))),
          Tagged("bigInteger", JDict(<<>>))}

RawValues == Primitives \cup Containers

ValueCall(value) == [op |-> "extract", value |-> value]

ValuePending == [k |-> "pending", fn |-> "none", dec |-> NoDecimal, str |-> NoStr]

\* what the caller of extract_value sees
ExtractedValue(dec) ==
    [k |-> IF dec.k = "raise" THEN "raise" ELSE "ok", fn |-> "extract_value",
     dec |-> dec, str |-> NoStr]

\* what the caller of extract_string_value sees
ExtractedString(str) ==
    [k |-> "ok", fn |-> "extract_string_value", dec |-> NoDecimal, str |-> str]

InitValues ==
    /\ positions = <<>>
    /\ \E value \in RawValues : call = ValueCall(value)
    /\ ret = ValuePending
    /\ event = EmptyEvent
    /\ now = WallClock
    /\ parsed = Pending

CallExtractValue ==
    /\ ret = ValuePending
    /\ ret' = ExtractedValue(ExtractValue(call.value))
    /\ UNCHANGED <<positions, call, event, now, parsed>>

CallExtractStringValue ==
    /\ ret = ValuePending
    /\ ret' = ExtractedString(ExtractStringValue(call.value))
    /\ UNCHANGED <<positions, call, event, now, parsed>>

NextValues ==
    \/ CallExtractValue
    \/ CallExtractStringValue

SpecValues == InitValues /\ [][NextValues]_vars

-----------------------------------------------------------------------------
(* question_analyzer.py: _decode_ancillary_data                            *)

HexDigits == {"0", "1", "2", "3", "4", "5", "6", "7", "8", "9",
              "a", "b", "c", "d", "e", "f", "A", "B", "C", "D", "E", "F"}

\* the result of bytes.fromhex: the bytes, or ValueError
HexBytes(bytes) == [ok |-> TRUE, bytes |-> bytes]
HexValueError == [ok |-> FALSE, bytes |-> <<>>]

\* bytes.fromhex that takes no whitespace
RECURSIVE BytesFromHexStrict(_, _)
BytesFromHexStrict(s, bytes) ==
    IF s = <<>> THEN HexBytes(bytes)
    ELSE IF Len(s) >= 2 /\ s[1] \in HexDigits /\ s[2] \in HexDigits
    THEN BytesFromHexStrict(SubSeq(s, 3, Len(s)),
                            Append(bytes, 16 * DigitVal(s[1]) + DigitVal(s[2])))
    ELSE HexValueError

\* bytes.fromhex(s): whitespace around the two-digit pairs is skipped; one
\* digit on its own or any other character is a ValueError
RECURSIVE BytesFromHex(_, _)
BytesFromHex(s, bytes) ==
    IF s = <<>> THEN HexBytes(bytes)
    ELSE IF Head(s) \in Whitespace THEN BytesFromHex(Tail(s), bytes)
    ELSE IF Len(s) >= 2 /\ s[1] \in HexDigits /\ s[2] \in HexDigits
    THEN BytesFromHex(SubSeq(s, 3, Len(s)),
                      Append(bytes, 16 * DigitVal(s[1]) + DigitVal(s[2])))
    ELSE HexValueError

\* the character of one ASCII byte
AsciiChar(b) ==
    CASE b = 0 -> "\\x00" [] b = 4 -> "\\x04" [] b = 15 -> "\\x0f"
      [] b = 64 -> "@" [] b = 68 -> "D" [] b = 79 -> "O"
      [] OTHER -> "?"

\* bytes.decode("utf-8", errors="replace") on bytes below 0x80 and on bytes
\* that are no part of a well-formed sequence (0xf0 to 0xff with no
\* continuation byte after them): each of the latter becomes U+FFFD
Utf8Replace(bytes) ==
    [i \in 1..Len(bytes) |-> IF bytes[i] < 128 THEN AsciiChar(bytes[i]) ELSE "U+FFFD"]

\* the try block of _decode_ancillary_data
DecodeOrKeep(hex_value, decoded) ==
    IF decoded.ok THEN Utf8Replace(decoded.bytes) ELSE hex_value

\* _decode_ancillary_data
DecodeAncillaryData(hex_value) ==
    IF hex_value = <<>> THEN <<>>
    ELSE DecodeOrKeep(hex_value,
            BytesFromHex(IF StartsWith(hex_value, <<"0", "x">>)
                         THEN SubSeq(hex_value, 3, Len(hex_value))
                         ELSE hex_value, <<>>))

MaxText == 5

TextChars == {"0", "x", "4", "f", " "}

HexValues == SeqsUpTo(TextChars, MaxText)

DecodeCall(hex_value) == [op |-> "_decode_ancillary_data", hex_value |-> hex_value]

DecodePending == [k |-> "pending", text |-> <<>>]

InitDecode ==
    /\ positions = <<>>
    /\ \E hex_value \in HexValues : call = DecodeCall(hex_value)
    /\ ret = DecodePending
    /\ event = EmptyEvent
    /\ now = WallClock
    /\ parsed = Pending

CallDecodeAncillaryData ==
    /\ ret = DecodePending
    /\ ret' = [k |-> "ok", text |-> DecodeAncillaryData(call.hex_value)]
    /\ UNCHANGED <<positions, call, event, now, parsed>>

NextDecode == CallDecodeAncillaryData

SpecDecode == InitDecode /\ [][NextDecode]_vars

-----------------------------------------------------------------------------
(* question_analyzer.py: _detect_topics and _extract_keywords              *)
(*   A text is a sequence of items, the pieces of the text that whitespace *)
(*   separates: words, the comma, and the field markers "title:",          *)
(*   "description:" and "market_id:".                                      *)

STOPWORDS ==
    {"the", "and", "for", "that", "with", "will", "this", "from", "have",
     "when", "what", "which", "would", "about", "there", "their", "been",
     "into", "more", "than", "over", "shall", "should", "could", "while",
     "against", "among", "upon", "where", "after", "before", "within",
     "between", "such", "also", "does", "ever", "whose", "each", "here",
     "your", "you", "are", "was", "did", "has", "its", "our", "who", "how",
     "why", "can", "may", "per", "any", "market", "markets", "resolve",
     "resolved", "question", "upcoming", "res", "data", "res_data",
     "initializer", "https", "http", "market_id"}

\* _TOPIC_KEYWORDS, in the order of the dict
TOPIC_KEYWORDS ==
    <<[topic |-> "Politics", keywords |->
        {"election", "president", "prime", "minister", "parliament", "vote",
         "senate", "congress", "policy", "government"}],
      [topic |-> "Crypto", keywords |->
        {"bitcoin", "btc", "ethereum", "eth", "polygon", "matic", "sol",
         "solana", "xrp", "usdt", "token", "crypto", "defi", "blockchain",
         "stablecoin", "sec", "binance"}],
      [topic |-> "Finance", keywords |->
        {"stock", "stocks", "price", "interest", "rate", "rates", "inflation",
         "gdp", "revenue", "profit", "yield", "bond", "bonds", "treasury",
         "fed"}],
      [topic |-> "Sports", keywords |->
        {"game", "match", "league", "season", "championship", "tournament",
         "score", "team", "player", "coach", "nfl", "nba", "mlb", "nhl",
         "cbb", "soccer", "football", "basketball", "ufc", "mls"}],
      [topic |-> "Geopolitics", keywords |->
        {"war", "conflict", "russia", "ukraine", "china", "sanction",
         "military", "peace", "nato", "border"}],
      [topic |-> "Technology", keywords |->
        {"artificial", "intelligence", "software", "hardware", "chip",
         "semiconductor", "robotics", "cyber", "cloud", "compute", "machine",
         "learning"}],
      [topic |-> "Weather", keywords |->
        {"temperature", "rain", "snow", "storm", "hurricane", "weather",
         "climate", "heat", "cold", "precipitation"}],
      [topic |-> "Health", keywords |->
        {"covid", "virus", "vaccine", "disease", "hospital", "cases", "death",
         "health", "cdc", "who"}]>>

\* str.lower() of an item
LowerItem(item) ==
    CASE item = "Bitcoin" -> "bitcoin" [] item = "Title:" -> "title:"
      [] item = "Description:" -> "description:"
      [] OTHER -> item

\* _WORD_PATTERN.findall on one lowered item: runs of two or more letters,
\* digits and apostrophes
ItemTokens(item) ==
    CASE item = "," -> <<>>
      [] item = "a" -> <<>>
      [] item = "title:" -> <<"title">>
      [] item = "description:" -> <<"description">>
      [] item = "market_id:" -> <<"market", "id">>
      [] OTHER -> <<item>>

\* _tokenize
RECURSIVE Tokenize(_)
Tokenize(text) ==
    IF text = <<>> THEN <<>>
    ELSE ItemTokens(LowerItem(Head(text))) \o Tokenize(Tail(text))

\* len(token) > 2
LongerThanTwo(token) == token \notin {"eu", "id"}

\* where the pattern of a field starts to match: its first marker, 0 if none
FirstMarker(text, marker) ==
    LET hits == {i \in 1..Len(text) : LowerItem(text[i]) = marker}
    IN  IF hits = {} THEN 0 ELSE CHOOSE i \in hits : \A j \in hits : i <= j

\* what ends the value of the title: a comma followed by "description:"
TitleEnds(text, j) ==
    text[j] = "," /\ j < Len(text) /\ LowerItem(text[j + 1]) = "description:"

\* what ends the value of the description
DescriptionEnds(text, j) ==
    LowerItem(text[j]) \in {"market_id:", "res_data:", "initializer:", "https://", "http://"}

\* the value from the marker at start up to the first end after it
ValueUpTo(text, start, ends) ==
    SubSeq(text, start + 1,
           IF ends = {} THEN Len(text) ELSE (CHOOSE j \in ends : \A k \in ends : j <= k) - 1)

\* _extract_field_value
ExtractFieldValue(text, field) ==
    LET start == FirstMarker(text, IF field = "title" THEN "title:" ELSE "description:")
    IN  IF start = 0 THEN <<>>
        ELSE ValueUpTo(text, start,
                {j \in (start + 1)..Len(text) :
                    IF field = "title" THEN TitleEnds(text, j) ELSE DescriptionEnds(text, j)})

\* _extract_core_text
CoreOf(text, title, description) ==
    IF title # <<>> \/ description # <<>> THEN title \o description ELSE text

ExtractCoreText(text) ==
    CoreOf(text, ExtractFieldValue(text, "title"), ExtractFieldValue(text, "description"))

\* set(tokens)
TokenSet(tokens) == {tokens[i] : i \in 1..Len(tokens)}

\* the score of every topic, in the order of the dict
Scores(tokens) ==
    [i \in 1..Len(TOPIC_KEYWORDS) |->
        [topic |-> TOPIC_KEYWORDS[i].topic,
         score |-> Cardinality(TOPIC_KEYWORDS[i].keywords \cap tokens)]]

\* a sort that leaves the topics in the order of the dict
InsertUnsorted(sorted, item) == Append(sorted, item)

\* list.sort(key=score, reverse=True): stable, larger scores first
RECURSIVE InsertByScore(_, _)
InsertByScore(sorted, item) ==
    IF sorted = <<>> THEN <<item>>
    ELSE IF sorted[Len(sorted)].score >= item.score THEN Append(sorted, item)
    ELSE Append(InsertByScore(SubSeq(sorted, 1, Len(sorted) - 1), item), sorted[Len(sorted)])

RECURSIVE SortByScore(_, _, _)
SortByScore(items, i, sorted) ==
    IF i > Len(items) THEN sorted
    ELSE SortByScore(items, i + 1, InsertByScore(sorted, items[i]))

TopicNames(scored) == [i \in 1..Len(scored) |-> scored[i].topic]

\* _detect_topics from the scored topics on
TopicsOf(scored_topics) ==
    IF scored_topics = <<>> THEN <<"General">>
    ELSE TopicNames(Take(SortByScore(scored_topics, 1, <<>>), 3))

\* _detect_topics
DetectTopics(text) ==
    TopicsOf(SelectSeq(Scores(TokenSet(Tokenize(ExtractCoreText(text)))),
                       LAMBDA item : item.score # 0))

\* counts[token] += weight on a Counter, kept in the order of first insertion
AddCount(counts, token, weight) ==
    IF \E i \in 1..Len(counts) : counts[i].word = token
    THEN [i \in 1..Len(counts) |->
            IF counts[i].word = token
            THEN [counts[i] EXCEPT !.count = @ + weight] ELSE counts[i]]
    ELSE Append(counts, [word |-> token, count |-> weight])

\* one of the three counting loops of _extract_keywords
RECURSIVE CountTokens(_, _, _, _)
CountTokens(tokens, i, counts, weight) ==
    IF i > Len(tokens) THEN counts
    ELSE CountTokens(tokens, i + 1,
            IF tokens[i] \notin STOPWORDS /\ LongerThanTwo(tokens[i])
            THEN AddCount(counts, tokens[i], weight) ELSE counts,
            weight)

RECURSIVE InsertByCount(_, _)
InsertByCount(sorted, item) ==
    IF sorted = <<>> THEN <<item>>
    ELSE IF sorted[Len(sorted)].count >= item.count THEN Append(sorted, item)
    ELSE Append(InsertByCount(SubSeq(sorted, 1, Len(sorted) - 1), item), sorted[Len(sorted)])

RECURSIVE SortByCount(_, _, _)
SortByCount(items, i, sorted) ==
    IF i > Len(items) THEN sorted
    ELSE SortByCount(items, i + 1, InsertByCount(sorted, items[i]))

\* Counter.most_common(n): larger counts first, equal counts in the order of
\* first insertion
MostCommon(counts, n) == Take(SortByCount(counts, 1, <<>>), n)

WordsOf(common) == [i \in 1..Len(common) |-> common[i].word]

\* _extract_keywords once the counts are final
KeywordsOf(counts, max_keywords) ==
    IF counts = <<>> THEN <<>> ELSE WordsOf(MostCommon(counts, max_keywords))

\* _extract_keywords after the two loops over the fields
KeywordsOrFallback(text, counts, max_keywords) ==
    IF counts = <<>>
    THEN KeywordsOf(CountTokens(Tokenize(text), 1, <<>>, 1), max_keywords)
    ELSE KeywordsOf(counts, max_keywords)

\* the counts with the title weighing no more than the description
FieldCountsUnweighted(text) ==
    CountTokens(Tokenize(ExtractFieldValue(text, "description")), 1,
                CountTokens(Tokenize(ExtractFieldValue(text, "title")), 1, <<>>, 1), 1)

\* the counts after the loops over the title and over the description
FieldCounts(text) ==
    CountTokens(Tokenize(ExtractFieldValue(text, "description")), 1,
                CountTokens(Tokenize(ExtractFieldValue(text, "title")), 1, <<>>, 3), 1)

\* _extract_keywords
ExtractKeywords(text, max_keywords) ==
    KeywordsOrFallback(text, FieldCounts(text), max_keywords)

\* the texts of the topic calls: up to MaxTopicItems items
MaxTopicItems == 5

TopicItems == {"bitcoin", "ethereum", "price", "election", "war", "hello", "title:"}

TopicTexts == SeqsUpTo(TopicItems, MaxTopicItems)

TopicsCall(text) == [op |-> "_detect_topics", text |-> text, max_keywords |-> 0]

AnalysisPending == [k |-> "pending", topics |-> <<>>, keywords |-> <<>>]

InitTopics ==
    /\ positions = <<>>
    /\ \E text \in TopicTexts : call = TopicsCall(text)
    /\ ret = AnalysisPending
    /\ event = EmptyEvent
    /\ now = WallClock
    /\ parsed = Pending

CallDetectTopics ==
    /\ ret = AnalysisPending
    /\ ret' = [k |-> "ok", topics |-> DetectTopics(call.text), keywords |-> <<>>]
    /\ UNCHANGED <<positions, call, event, now, parsed>>

NextTopics == CallDetectTopics

SpecTopics == InitTopics /\ [][NextTopics]_vars

-----------------------------------------------------------------------------
(* _extract_keywords on its own: one call on one text                      *)

MaxFieldWords == 3

KeywordWords == {"Bitcoin", "bitcoin", "war", "the"}

Titles == {<<>>, <<"Bitcoin">>, <<"war">>, <<"the">>, <<"Bitcoin", "war">>}

Descriptions == SeqsUpTo(KeywordWords, MaxFieldWords)

\* how the title, the description and what follows them are marked
TitleMarks == {<<>>, <<"title:">>}
DescriptionMarks == {<<>>, <<",", "description:">>, <<"description:">>}
Trailers == {<<>>, <<"market_id:", "war", "eu">>}

KeywordTexts ==
    {tm \o t \o dm \o d \o tr :
        tm \in TitleMarks, t \in Titles, dm \in DescriptionMarks,
        d \in Descriptions, tr \in Trailers}

KeywordLimits == {0, 1, 2}

KeywordsCall(text, max_keywords) ==
    [op |-> "_extract_keywords", text |-> text, max_keywords |-> max_keywords]

InitKeywords ==
    /\ positions = <<>>
    /\ \E text \in KeywordTexts, max_keywords \in KeywordLimits :
            call = KeywordsCall(text, max_keywords)
    /\ ret = AnalysisPending
    /\ event = EmptyEvent
    /\ now = WallClock
    /\ parsed = Pending

CallExtractKeywords ==
    /\ ret = AnalysisPending
    /\ ret' = [k |-> "ok", topics |-> <<>>,
               keywords |-> ExtractKeywords(call.text, call.max_keywords)]
    /\ UNCHANGED <<positions, call, event, now, parsed>>

NextKeywords == CallExtractKeywords

SpecKeywords == InitKeywords /\ [][NextKeywords]_vars

-----------------------------------------------------------------------------
(* position_tracker.py: get_question_details                               *)
(*   The operation's outcome is [k, result, queries]: result is the        *)
(*   optional string returned, queries the upstream queries issued, in     *)
(*   order, each with the method called and the id it was keyed by.        *)

\* str.replace("0x", "")
RECURSIVE Remove0x(_)
Remove0x(s) ==
    IF Len(s) < 2 THEN s
    ELSE IF s[1] = "0" /\ s[2] = "x" THEN Remove0x(SubSeq(s, 3, Len(s)))
    ELSE <<s[1]>> \o Remove0x(Tail(s))

Query(method, key) == [method |-> method, key |-> key]

Details(result, queries) == [k |-> "ok", result |-> result, queries |-> queries]

ConditionKeys == <<"conditionId", "conditionID", "condition_id">>
QuestionKeys == <<"questionID", "questionId", "question_id">>
AncillaryKeys == <<"ancillary_data", "data", "ancillary">>

\* the loop over the candidate names of an id in one event: the cleaned id
\* of the first name whose value is a non-empty string, "" when there is none
RECURSIVE ProbeId(_, _, _)
ProbeId(arg_dict, keys, j) ==
    IF j > Len(keys) THEN <<>>
    ELSE IF DictHas(arg_dict, keys[j])
            /\ Truthy(ExtractStringValue(DictGet(arg_dict, keys[j])))
    THEN Lower(Remove0x(ExtractStringValue(DictGet(arg_dict, keys[j])).s))
    ELSE ProbeId(arg_dict, keys, j + 1)

\* the loop over the events of step 1 or step 2 from event i on: [k, id], k
\* being "raise" when an event's arguments cannot be read
RECURSIVE FindId(_, _, _)
IdOrNext(events, i, keys, id) ==
    IF id # <<>> THEN [k |-> "ok", id |-> id] ELSE FindId(events, i + 1, keys)

IdOfEvent(events, i, keys, args) ==
    IF args.k = "raise" THEN [k |-> "raise", id |-> <<>>]
    ELSE IdOrNext(events, i, keys, ProbeId(args.d, keys, 1))

FindId(events, i, keys) ==
    IF i > Len(events) THEN [k |-> "ok", id |-> <<>>]
    ELSE IdOfEvent(events, i, keys, ArgDict(events[i]))

\* the ancillary data of one event: "ancillaryData" if there is such an
\* argument, else the first of the alternative names with a non-empty value
RECURSIVE ProbeAncillary(_, _)
ProbeAncillary(arg_dict, j) ==
    IF j > Len(AncillaryKeys) THEN NoStr
    ELSE IF DictHas(arg_dict, AncillaryKeys[j])
            /\ Truthy(ExtractStringValue(DictGet(arg_dict, AncillaryKeys[j])))
    THEN ExtractStringValue(DictGet(arg_dict, AncillaryKeys[j]))
    ELSE ProbeAncillary(arg_dict, j + 1)

AncillaryOf(arg_dict) ==
    IF DictHas(arg_dict, "ancillaryData")
    THEN ExtractStringValue(DictGet(arg_dict, "ancillaryData"))
    ELSE ProbeAncillary(arg_dict, 1)

\* the loop over the events of step 3 from event i on
RECURSIVE FindAncillary(_, _)
AncillaryOrNext(events, i, hex) ==
    IF Truthy(hex) THEN [k |-> "ok", hex |-> hex.s] ELSE FindAncillary(events, i + 1)

AncillaryOfEvent(events, i, args) ==
    IF args.k = "raise" THEN [k |-> "raise", hex |-> <<>>]
    ELSE AncillaryOrNext(events, i, AncillaryOf(args.d))

FindAncillary(events, i) ==
    IF i > Len(events) THEN [k |-> "ok", hex |-> <<>>]
    ELSE AncillaryOfEvent(events, i, ArgDict(events[i]))

\* str.strip("\x00")
RECURSIVE StripNul(_)
StripNul(s) ==
    IF s = <<>> THEN s
    ELSE IF Head(s) = "\\x00" THEN StripNul(Tail(s))
    ELSE IF s[Len(s)] = "\\x00" THEN StripNul(SubSeq(s, 1, Len(s) - 1))
    ELSE s

\* bytes.decode("utf-8", errors="ignore") on bytes below 0x80 and on bytes
\* that are no part of a well-formed sequence, which are dropped
Utf8Ignore(bytes) ==
    LET kept == SelectSeq(bytes, LAMBDA b : b < 128)
    IN  [i \in 1..Len(kept) |-> AsciiChar(kept[i])]

\* the decoding at the end of get_question_details
DecodedDetails(ancillary_data_hex, decoded) ==
    IF decoded.ok THEN StripNul(Utf8Ignore(decoded.bytes)) ELSE ancillary_data_hex

EvenLength(hex_string) ==
    IF Len(hex_string) % 2 # 0 THEN <<"0">> \o hex_string ELSE hex_string

DecodeDetails(ancillary_data_hex) ==
    DecodedDetails(ancillary_data_hex,
                   BytesFromHex(EvenLength(Remove0x(ancillary_data_hex)), <<>>))

\* step 3, from the answer to its query on
DetailsOfData(found, queries) ==
    IF found.k = "raise" \/ found.hex = <<>> THEN Details(NoStr, queries)
    ELSE Details(SomeStr(DecodeDetails(found.hex)), queries)

QuestionData(question_data_events, queries) ==
    IF question_data_events = <<>> THEN Details(NoStr, queries)
    ELSE DetailsOfData(FindAncillary(question_data_events, 1), queries)

\* step 2, from the answer to its query on
DetailsOfQuestion(found, question_data_events, queries) ==
    IF found.k = "raise" \/ found.id = <<>> THEN Details(NoStr, queries)
    ELSE QuestionData(question_data_events,
            Append(queries, Query("get_question_data_by_question_id", found.id)))

QuestionEvents(question_events, question_data_events, queries) ==
    IF question_events = <<>> THEN Details(NoStr, queries)
    ELSE DetailsOfQuestion(FindId(question_events, 1, QuestionKeys),
                           question_data_events, queries)

\* a slip: step 2 is queried whatever step 1 found
DetailsOfTokenUnchecked(found, question_events, question_data_events, queries) ==
    QuestionEvents(question_events, question_data_events,
        Append(queries, Query("get_question_events_by_condition_id", found.id)))

\* step 1, from the answer to its query on
DetailsOfToken(found, question_events, question_data_events, queries) ==
    IF found.k = "raise" \/ found.id = <<>> THEN Details(NoStr, queries)
    ELSE QuestionEvents(question_events, question_data_events,
            Append(queries, Query("get_question_events_by_condition_id", found.id)))

TokenEvents(token_events, question_events, question_data_events, queries) ==
    IF token_events = <<>> THEN Details(NoStr, queries)
    ELSE DetailsOfToken(FindId(token_events, 1, ConditionKeys),
                        question_events, question_data_events, queries)

\* get_question_details: the three answers are what upstream returns to the
\* three queries, should they be issued
GetQuestionDetailsOp(asset_id, token_events, question_events, question_data_events) ==
    TokenEvents(token_events, question_events, question_data_events,
                <<Query("get_token_registered_by_asset_id", asset_id)>>)

\* an event with one argument
OneArg(name, value) ==
    RawEvent(ArgList(<<Arg(name, value)>>), BlockDict(TimeStr("z", 1)), TxDict(FromStr(AddrFF)))

IdAB == <<"0", "x", "A", "B">>
IdCD == <<"0", "x", "c", "d">>

\* the events of the answers to the three queries
TokenAnswers ==
    {OneArg("conditionId", Tagged("hex", JStr(IdAB))),
     OneArg("condition_id", Tagged("string", JStr(<<"0", "x">>))),
     OneArg("conditionId", Tagged("hex", JNull)),
     RawEvent(ArgList(<<ArgNoValue("conditionId")>>), BlockDict(TimeStr("z", 1)),
              TxDict(FromStr(AddrFF))),
     EmptyEvent}

QuestionAnswers ==
    {OneArg("questionID", Tagged("hex", JStr(IdCD))),
     OneArg("questionId", Tagged("hex", JStr(<<>>))),
     NullArgsEvent}

DataAnswers ==
    {OneArg("ancillaryData", Tagged("hex", JStr(<<"0", "x", "4", "f", "4", "4">>))),
     OneArg("data", Tagged("string", JStr(<<"0", "x", "4", "f", "0">>))),
     OneArg("ancillary", Tagged("string", JStr(<<"h", "i">>))),
     OneArg("ancillaryData", Tagged("hex", JNull)),
     EmptyEvent}

DetailsCall(asset_id, token_events, question_events, question_data_events) ==
    [op |-> "get_question_details", asset_id |-> asset_id,
     token_events |-> token_events, question_events |-> question_events,
     question_data_events |-> question_data_events]

DetailsPending == [k |-> "pending", result |-> NoStr, queries |-> <<>>]

InitDetails ==
    /\ positions = <<>>
    /\ \E asset_id \in {Asset12345},
          token_events \in SeqsUpTo(TokenAnswers, 2),
          question_events \in SeqsUpTo(QuestionAnswers, 1),
          question_data_events \in SeqsUpTo(DataAnswers, 2) :
            call = DetailsCall(asset_id, token_events, question_events,
                               question_data_events)
    /\ ret = DetailsPending
    /\ event = EmptyEvent
    /\ now = WallClock
    /\ parsed = Pending

CallGetQuestionDetails ==
    /\ ret = DetailsPending
    /\ ret' = GetQuestionDetailsOp(call.asset_id, call.token_events,
                                   call.question_events, call.question_data_events)
    /\ UNCHANGED <<positions, call, event, now, parsed>>

NextDetails == CallGetQuestionDetails

SpecDetails == InitDetails /\ [][NextDetails]_vars

-----------------------------------------------------------------------------
(* A session: one tracker, several operations, the retained history        *)

MaxHistory == 3

\* the events of a session's answers
SessionEvents ==
    {FilledEvent(<<"0">>, Asset12345, TimeStr("z", 1)),
     FilledEvent(Asset12345, <<"0">>, TimeStr("z", 2)),
     FilledEvent(<<"0">>, Asset777, TimeStr("z", 2)),
     EmptyEvent, NullArgsEvent}

\* a session's answers carry at most one event each
SessionResponses == SeqsUpTo(SessionEvents, 1)

\* the Positions the session's events parse to
SessionPositions ==
    {ParseOrderFilledEvent(ev, WallClock).p : ev \in SessionEvents \ {EmptyEvent, NullArgsEvent}}

\* the positions argument of get_trader_summary
SuppliedPositions ==
    {NoneGiven} \cup {Given(ps) : ps \in SeqsUpTo(SessionPositions, 2)}

InitSession ==
    /\ positions = <<>>
    /\ call = Call("init", <<>>, <<>>, 0, 0, <<>>)
    /\ ret = NoRet
    /\ event = ExampleEvent
    /\ now = WallClock
    /\ parsed = Pending

\* a slip: the history is replaced by what the operation returns
SessionReplacing(c, r) ==
    /\ Len(r.out) <= MaxHistory
    /\ positions' = r.out
    /\ call' = c
    /\ ret' = r
    /\ UNCHANGED <<event, now, parsed>>

\* an operation of the session that appends what it returns to the history
SessionAppending(c, r) ==
    /\ Len(positions) + Len(r.out) <= MaxHistory
    /\ positions' = positions \o r.out
    /\ call' = c
    /\ ret' = r
    /\ UNCHANGED <<event, now, parsed>>

SessionRecent ==
    \E response \in SessionResponses :
        SessionAppending(Call("get_recent_positions", <<>>, <<>>, 20, 0, response),
                         GetRecentPositionsOp(20, response, now))

SessionTrack ==
    \E address \in Addresses, response \in SessionResponses :
        SessionAppending(Call("track_trader", address, <<>>, MaxLimit, 0, response),
                         TrackTraderOp(address, MaxLimit, response, now))

SessionSummary ==
    \E address \in Addresses, supplied \in SuppliedPositions :
        /\ call' = [Call("get_trader_summary", address, <<>>, 0, 0, <<>>)
                        EXCEPT !.supplied = supplied]
        /\ ret' = GetTraderSummaryOp(address, supplied, positions)
        /\ UNCHANGED <<positions, event, now, parsed>>

\* an operation of the session that leaves the history alone
SessionReading(c, r) ==
    /\ call' = c
    /\ ret' = r
    /\ UNCHANGED <<positions, event, now, parsed>>

SessionFollow ==
    \E address \in Addresses, response \in FollowResponses :
        SessionAppending(Call("follow_trader_positions", address, <<>>, MaxLimit, 0, response),
                         FollowTraderPositionsOp(address, MaxLimit, 0, response, now))

SessionByAsset ==
    \E asset_id \in {Asset12345}, response \in SessionResponses :
        SessionReading(Call("get_positions_by_asset", <<>>, asset_id, 0, 0, response),
                       GetPositionsByAssetOp(asset_id, response, now))

SessionMarketPrice ==
    \E asset_id \in {Asset12345}, response \in SessionResponses :
        SessionReading(Call("calculate_market_price", <<>>, asset_id, 0, 0, response),
                       CalculateMarketPriceOp(asset_id, response, now))

SessionOrderbook ==
    \E asset_id \in {Asset12345}, response \in SessionResponses :
        SessionReading(Call("get_orderbook", <<>>, asset_id, 200, 0, response),
                       GetOrderbookOp(asset_id, 200, response, now))

SessionTop ==
    \E response \in SessionResponses :
        SessionReading([Call("get_top_traders_and_assets", <<>>, <<>>, 20000, 0, response)
                            EXCEPT !.top_traders_count = 1, !.top_assets_count = 1],
                       GetTopTradersAndAssetsOp(20000, 1, 1, response, now))

SessionQuestionDetails ==
    \E token_events \in {<<>>, <<OneArg("conditionId", Tagged("hex", JStr(IdAB)))>>},
       question_events \in {<<>>, <<OneArg("questionID", Tagged("hex", JStr(IdCD)))>>},
       question_data_events \in {<<>>, <<OneArg("ancillary", Tagged("string", JStr(<<"h", "i">>)))>>} :
        SessionReading(DetailsCall(Asset12345, token_events, question_events,
                                   question_data_events),
                       GetQuestionDetailsOp(Asset12345, token_events, question_events,
                                            question_data_events))

NextSession ==
    \/ SessionRecent
    \/ SessionTrack
    \/ SessionFollow
    \/ SessionSummary
    \/ SessionByAsset
    \/ SessionMarketPrice
    \/ SessionOrderbook
    \/ SessionTop
    \/ SessionQuestionDetails

SpecSession == InitSession /\ [][NextSession]_vars

-----------------------------------------------------------------------------
(* What the parsed event carries, as the claims speak of it                *)

\* the stablecoin's sentinel ids
IsStablecoinId(str) ==
    Truthy(str) /\ (str.s \in {<<"0">>, <<"0", "x", "0">>} \/ Strip(str.s) = <<"0">>)

EvMakerAssetId == AssetIdArg(ArgDict(event).d, "makerAssetId")
EvTakerAssetId == AssetIdArg(ArgDict(event).d, "takerAssetId")
EvMakerAmount == ProbeAmount(ArgDict(event).d, MakerAmountKeys, 1)
EvTakerAmount == ProbeAmount(ArgDict(event).d, TakerAmountKeys, 1)
\* the maker / taker address as the event spells it
EvAddress(name) ==
    IF DictHas(ArgDict(event).d, name)
    THEN ExtractStringValue(DictGet(ArgDict(event).d, name)) ELSE NoStr
EvMaker == EvAddress("maker")
EvTaker == EvAddress("taker")
EvArgsOk == ArgDict(event).k = "ok"

\* an optional amount as a number, absent counting as zero
AmountOrZero(a) == IF a.k = "num" THEN a.n ELSE 0

\* the stablecoin-per-token ratio of two raw amounts; 0 for no tokens
Ratio(usdc, tokens) ==
    IF AmountOrZero(tokens) = 0 \/ AmountOrZero(usdc) = 0 THEN FZero
    ELSE Frac(AmountOrZero(usdc), AmountOrZero(tokens))

-----------------------------------------------------------------------------
(* C1: for every raw event, parse_order_filled_event returns a Position or *)
(* None; no exception reaches the caller.                                  *)
C1_ParseNeverRaises == parsed.k \in {"pending", "pos", "none"}

\* an exception was raised inside the parse and the caller got None
C1_Witness == parsed.k = "none" /\ ParseBody(event, now).k = "raise"

(* C2: the asset_id of every parsed Position is non-empty and is not a     *)
(* stablecoin sentinel id ("0", "0x0").                                    *)
C2_AssetIdNeverStablecoin ==
    parsed.k = "pos" =>
        /\ parsed.p.asset_id # <<>>
        /\ parsed.p.asset_id \notin {<<"0">>, <<"0", "x", "0">>}

(* C3: when exactly one of makerAssetId / takerAssetId is the stablecoin   *)
(* id, the Position's asset_id is the other leg's id, its amount is the    *)
(* other side's filled amount over 10^6 and its price is the stablecoin    *)
(* side's amount over the token side's amount; the example event gives     *)
(* asset_id "12345", amount 2.0, price 0.5 and the taker as trader.        *)
C3_OneStablecoinLeg ==
    /\ parsed.k = "pos" /\ IsStablecoinId(EvMakerAssetId)
            /\ ~IsStablecoinId(EvTakerAssetId) =>
        /\ parsed.p.asset_id = EvTakerAssetId.s
        /\ parsed.p.amount = Frac(AmountOrZero(EvTakerAmount), 1000000)
        /\ parsed.p.price = Ratio(EvMakerAmount, EvTakerAmount)
    /\ parsed.k = "pos" /\ ~IsStablecoinId(EvMakerAssetId)
            /\ IsStablecoinId(EvTakerAssetId) =>
        /\ parsed.p.asset_id = EvMakerAssetId.s
        /\ parsed.p.amount = Frac(AmountOrZero(EvMakerAmount), 1000000)
        /\ parsed.p.price = Ratio(EvTakerAmount, EvMakerAmount)
    /\ parsed # Pending /\ event = ExampleEvent =>
        /\ parsed.k = "pos"
        /\ parsed.p.asset_id = Asset12345
        /\ parsed.p.amount = [num |-> 2, den |-> 1]
        /\ parsed.p.price = [num |-> 1, den |-> 2]
        /\ parsed.p.trader_address = <<"0", "x", "b", "b">>

\* a Position parsed from an event whose taker leg alone is the stablecoin
C3_Witness ==
    /\ parsed.k = "pos"
    /\ ~IsStablecoinId(EvMakerAssetId) /\ IsStablecoinId(EvTakerAssetId)
    /\ EvMakerAmount.k = "num" /\ EvMakerAmount.n > 0
    /\ EvTakerAmount.k = "num" /\ EvTakerAmount.n > 0
    /\ EvMakerAmount.n # EvTakerAmount.n

\* the outcome asset id of the fallback: the maker's if non-empty, else the
\* taker's
FallbackAssetId == IF Truthy(EvMakerAssetId) THEN EvMakerAssetId ELSE EvTakerAssetId

\* the Position carries the fallback's reading of the event: the taker paid
\* the stablecoin, the maker gave the tokens
FallbackReading ==
    /\ parsed.p.asset_id = FallbackAssetId.s
    /\ parsed.p.amount = Frac(AmountOrZero(EvMakerAmount), 1000000)
    /\ parsed.p.price = Ratio(EvTakerAmount, EvMakerAmount)

EvFrom ==
    IF event.Transaction.k = "dict" /\ event.Transaction.From.k = "str"
    THEN Lower(event.Transaction.From.s) ELSE <<>>

\* the maker supplied the stablecoin leg
MakerSupplied == IsStablecoinId(EvMakerAssetId)

(* C5, as claimed: trader_address is the lowercased address of the         *)
(* counterparty that did not supply the stablecoin leg (the taker when the *)
(* maker supplied it, the maker otherwise); Transaction.From is used only  *)
(* when neither a maker nor a taker address resolved.                      *)
C5_TraderIsNonSupplier ==
    parsed.k = "pos" =>
        IF Truthy(EvMaker) \/ Truthy(EvTaker)
        THEN parsed.p.trader_address =
                Lower(IF MakerSupplied THEN EvTaker.s ELSE EvMaker.s)
        ELSE parsed.p.trader_address = EvFrom

(* C5, amended: trader_address is the lowercased address of the            *)
(* counterparty that did not supply the stablecoin leg when that address   *)
(* resolved, the other counterparty's lowercased address when only that    *)
(* one resolved, and the lowercased Transaction.From only when neither     *)
(* resolved.                                                               *)
C5_TraderIsNonSupplierIfResolved ==
    parsed.k = "pos" =>
        LET buyer == IF MakerSupplied THEN EvTaker ELSE EvMaker
            other == IF MakerSupplied THEN EvMaker ELSE EvTaker
        IN  /\ Truthy(buyer) => parsed.p.trader_address = Lower(buyer.s)
            /\ ~Truthy(buyer) /\ Truthy(other) =>
                    parsed.p.trader_address = Lower(other.s)
            /\ ~Truthy(buyer) /\ ~Truthy(other) => parsed.p.trader_address = EvFrom

\* the maker supplied the stablecoin, both addresses resolved, and the
\* trader is the taker's address in lower case
C5_Witness ==
    /\ parsed.k = "pos" /\ MakerSupplied
    /\ Truthy(EvMaker) /\ Truthy(EvTaker)
    /\ EvTaker.s = AddrBB
    /\ parsed.p.trader_address = <<"0", "x", "b", "b">>

\* usdc_paid and tokens_amount as the parse maps them
EvUsdcPaid ==
    IF MakerSupplied THEN EvMakerAmount ELSE EvTakerAmount
EvTokensAmount ==
    IF MakerSupplied THEN EvTakerAmount ELSE EvMakerAmount

\* the outcome asset id the parse settles on
EvOutcomeAssetId ==
    IF MakerSupplied THEN EvTakerAssetId
    ELSE IF IsStablecoinId(EvTakerAssetId) THEN EvMakerAssetId
    ELSE FallbackAssetId

(* C6: the parse returns None when both the stablecoin amount and the      *)
(* token amount are absent, or when there is no outcome asset id; when     *)
(* exactly one of the two amounts resolves and there is an outcome asset   *)
(* id, a Position is produced (nothing else in the event raising) with the *)
(* absent amount counted as zero; its price is 0.0 whenever the token      *)
(* amount is absent or zero.                                               *)
C6_AbsentAmounts ==
    parsed # Pending =>
        /\ EvUsdcPaid.k = "none" /\ EvTokensAmount.k = "none" => parsed.k = "none"
        /\ ~Truthy(EvOutcomeAssetId) => parsed.k = "none"
        /\ (EvUsdcPaid.k = "num" /\ EvTokensAmount.k = "none")
             \/ (EvUsdcPaid.k = "none" /\ EvTokensAmount.k = "num") =>
            /\ Truthy(EvOutcomeAssetId) /\ ParseBody(event, now).k # "raise" =>
                /\ parsed.k = "pos"
                /\ parsed.p.amount = Frac(AmountOrZero(EvTokensAmount), 1000000)
        /\ parsed.k = "pos" /\ AmountOrZero(EvTokensAmount) = 0 =>
                parsed.p.price = FZero

\* a Position with only the token amount present
C6_Witness ==
    /\ parsed.k = "pos"
    /\ EvUsdcPaid.k = "none" /\ EvTokensAmount.k = "num" /\ EvTokensAmount.n > 0
    /\ parsed.p.amount # FZero /\ parsed.p.price = FZero

-----------------------------------------------------------------------------
(* What a call of the tracker answers, as the claims speak of it           *)

\* the Positions of the parseable events among the first n of a batch, in
\* upstream order
RECURSIVE ParseableOf(_, _, _)
KeepParsed(before, r) == IF r.k = "pos" THEN Append(before, r.p) ELSE before

ParseableOf(events, n, clock) ==
    IF n = 0 THEN <<>>
    ELSE KeepParsed(ParseableOf(events, n - 1, clock), ParseAt(events, n, clock))

IsPrefix(a, b) == Len(a) <= Len(b) /\ a = SubSeq(b, 1, Len(a))

\* the Positions of the call's batch
CallParseable == ParseableOf(call.response, Len(call.response), now)

\* the Positions of the call's batch whose trader is the call's address
CallByTrader ==
    LET Keep(p) == Lower(p.trader_address) = Lower(call.address)
    IN  SelectSeq(CallParseable, Keep)

\* the Positions of the call's batch whose maker is the call's address
CallByMaker ==
    LET Keep(p) == Lower(p.maker_address) = Lower(call.address)
    IN  SelectSeq(CallParseable, Keep)

(* C7: get_recent_positions returns exactly one Position per parseable     *)
(* event of the upstream batch, in upstream order; an unparseable event is *)
(* skipped without raising and the events after it are still processed.    *)
C7_RecentSkipsUnparseable ==
    call.op = "get_recent_positions" =>
        /\ ret.k = "ok"
        /\ ret.out = CallParseable
        /\ ret.seen = Len(call.response)

(* C8: get_orderbook and calculate_market_price return a result, never an  *)
(* exception, for every batch of events upstream returns, a batch in which *)
(* some events have a block time and others lack it included.              *)
C8_BookAndPriceNeverRaise ==
    call.op \in {"get_orderbook", "calculate_market_price"} => ret.k # "raise"

(* C9: track_trader returns only positions whose trader_address equals the *)
(* target address case-insensitively, in upstream order, never more than   *)
(* limit of them for every limit >= 0; it parses no event past the one     *)
(* that filled the limit.                                                  *)
C9_TrackAtMostLimit ==
    call.op = "track_trader" =>
        /\ ret.k = "ok"
        /\ IsPrefix(ret.out, CallByTrader)
        /\ Len(ret.out) <= call.limit
        /\ ret.seen < Len(GetOrderFilledEventsByTrader(Lower(call.address),
                                                       call.response)) =>
                Len(ret.out) = call.limit

(* C10: for a non-empty maker address, follow_trader_positions obtains the *)
(* events from the upstream client and returns the parsed positions whose  *)
(* maker_address equals the lowercased target, at most limit of them,      *)
(* without raising.                                                        *)
C10_FollowReturnsByMaker ==
    call.op = "follow_trader_positions" /\ call.address # <<>> =>
        /\ ret.k = "ok"
        /\ IsPrefix(ret.out, CallByMaker)
        /\ Len(ret.out) <= call.limit

-----------------------------------------------------------------------------
(* C11: filtering by an empty (or None) address returns an empty result    *)
(* rather than raising: track_trader("") and follow_trader_positions("")   *)
(* return an empty list, append nothing to the history, and no event of    *)
(* the upstream's answer is fetched.                                       *)
C11_EmptyAddressEmptyResult ==
    call.op \in {"track_trader", "follow_trader_positions"}
            /\ call.address = <<>> =>
        /\ ret.k = "ok"
        /\ ret.out = <<>>
        /\ ret.seen = 0
        /\ positions = <<>>

\* track_trader("") answered while the upstream had events to give
C11_Witness ==
    /\ call.op = "track_trader" /\ call.address = <<>> /\ call.limit >= 1
    /\ Len(call.response) >= 2
    /\ ret.k = "ok" /\ ret.out = <<>>

\* the Positions of the call's batch whose asset id, trimmed, is the call's
\* asset id, trimmed
CallByAsset ==
    LET Keep(p) == Strip(p.asset_id) = Strip(call.asset_id)
    IN  SelectSeq(CallParseable, Keep)

(* C12: get_positions_by_asset returns only positions whose asset_id,      *)
(* whitespace-trimmed, equals the whitespace-trimmed requested asset id,   *)
(* whatever events the upstream client returns (events for other assets    *)
(* included); a None upstream result gives an empty list.                  *)
C12_ByAssetOnlyRequested ==
    /\ call.op = "get_positions_by_asset" =>
        /\ ret.k = "ok"
        /\ \A i \in 1..Len(ret.out) :
                Strip(ret.out[i].asset_id) = Strip(call.asset_id)
        /\ ret.out = CallByAsset
    /\ call.op = "get_positions_by_asset(None)" => ret.k = "ok" /\ ret.out = <<>>

\* the upstream over-fetched: three events parse, one is of the asset asked
\* for, and the id asked for carries a blank
C12_Witness ==
    /\ call.op = "get_positions_by_asset"
    /\ call.asset_id = <<" ", "7", "7", "7">>
    /\ Len(CallParseable) = 3
    /\ Len(ret.out) = 1

(* C13: calculate_market_price returns None exactly when the by-asset      *)
(* filter yields no positions; otherwise it returns the price of a         *)
(* position whose timestamp is the maximum over all positions for that     *)
(* asset (no position with a strictly later timestamp exists).             *)
C13_LatestPriceOrNone ==
    call.op = "calculate_market_price" =>
        /\ ret.k = "none" <=> CallByAsset = <<>>
        /\ CallByAsset # <<>> =>
            /\ ret.k = "ok"
            /\ \E i \in 1..Len(CallByAsset) :
                /\ ret.price = CallByAsset[i].price
                /\ \A j \in 1..Len(CallByAsset) :
                    CallByAsset[j].timestamp.t <= CallByAsset[i].timestamp.t

\* the positions a get_trader_summary call summarises: the ones supplied, or
\* the ones of the history whose trader is the given address in any case
SummarisedPositions ==
    LET Keep(p) == Lower(p.trader_address) = Lower(call.address)
    IN  IF call.supplied.given THEN call.supplied.ps
        ELSE SelectSeq(positions, Keep)

\* the sum of amount * price over ps
RECURSIVE SumOfVolumes(_)
SumOfVolumes(ps) ==
    IF ps = <<>> THEN FZero
    ELSE FracAdd(FracMul(Head(ps).amount, Head(ps).price), SumOfVolumes(Tail(ps)))

\* the sum of the prices of ps
RECURSIVE SumOfPrices(_)
SumOfPrices(ps) ==
    IF ps = <<>> THEN FZero ELSE FracAdd(Head(ps).price, SumOfPrices(Tail(ps)))

(* C14: get_trader_summary reports total_positions = number of positions, *)
(* total_volume = sum of amount*price, avg_price = unweighted arithmetic   *)
(* mean of the per-trade prices, unique_assets = number of distinct asset  *)
(* ids; with zero positions it returns the all-zero summary without        *)
(* raising; when no positions are supplied it uses the positions of the    *)
(* retained history whose trader_address equals the given address          *)
(* case-insensitively.                                                     *)
C14_TraderSummary ==
    call.op = "get_trader_summary" =>
        /\ ret.k = "ok"
        /\ ret.summary.trader = call.address
        /\ ret.summary.total_positions = Len(SummarisedPositions)
        /\ ret.summary.total_volume = SumOfVolumes(SummarisedPositions)
        /\ FracMul(ret.summary.avg_price, Frac(Len(SummarisedPositions), 1))
                = SumOfPrices(SummarisedPositions)
        /\ ret.summary.unique_assets =
                Cardinality({SummarisedPositions[i].asset_id :
                                i \in 1..Len(SummarisedPositions)})
        /\ SummarisedPositions = <<>> =>
            /\ ret.summary.total_volume = FZero
            /\ ret.summary.avg_price = FZero
            /\ ret.summary.unique_assets = 0

\* a summary taken from the history for an address spelled in upper case:
\* two of the three retained positions are the trader's, on two assets
C14_Witness ==
    /\ call.op = "get_trader_summary" /\ ~call.supplied.given
    /\ call.address = AddrBB
    /\ Len(positions) = 3
    /\ ret.summary.total_positions = 2
    /\ ret.summary.unique_assets = 2
    /\ ret.summary.total_volume = [num |-> 2, den |-> 1]
    /\ ret.summary.avg_price = [num |-> 1, den |-> 2]

\* the sum of the amounts of ps
RECURSIVE SumOfAmounts(_)
SumOfAmounts(ps) ==
    IF ps = <<>> THEN FZero ELSE FracAdd(Head(ps).amount, SumOfAmounts(Tail(ps)))

\* the positions of the call's batch traded by the trader / in the asset
PositionsOfTrader(address) ==
    LET Keep(p) == Lower(p.trader_address) = address
    IN  SelectSeq(CallParseable, Keep)
PositionsOfAsset(asset_id) ==
    LET Keep(p) == Strip(p.asset_id) = asset_id
    IN  SelectSeq(CallParseable, Keep)

\* a ranking is in non-increasing order of total_volume
NonIncreasingVolume(entries) ==
    \A i \in 1..Len(entries) - 1 :
        ~FracLess(entries[i].total_volume, entries[i + 1].total_volume)

\* an entry counts the positions of its group and averages their price by
\* volume
EntryOfGroup(entry, group) ==
    /\ entry.key # <<>>
    /\ entry.total_trades = Len(group)
    /\ entry.total_volume = SumOfVolumes(group)
    /\ entry.avg_price =
            IF SumOfAmounts(group) = FZero THEN FZero
            ELSE FracDiv(entry.total_volume, SumOfAmounts(group))

(* C15: get_top_traders_and_assets returns traders and assets each sorted  *)
(* by total_volume in non-increasing order, each list no longer than the   *)
(* requested count, with no entry whose address or asset id is empty; each *)
(* entry's total_trades is the number of parsed positions in its group and *)
(* its avg_price is total_volume / total token amount, or 0.0 when the     *)
(* total token amount is 0.                                                *)
C15_TopRanking ==
    call.op = "get_top_traders_and_assets" =>
        /\ ret.k = "ok"
        /\ NonIncreasingVolume(ret.top.traders)
        /\ NonIncreasingVolume(ret.top.assets)
        /\ Len(ret.top.traders) <= call.top_traders_count
        /\ Len(ret.top.assets) <= call.top_assets_count
        /\ \A i \in 1..Len(ret.top.traders) :
            EntryOfGroup(ret.top.traders[i],
                         PositionsOfTrader(ret.top.traders[i].key))
        /\ \A i \in 1..Len(ret.top.assets) :
            EntryOfGroup(ret.top.assets[i],
                         PositionsOfAsset(ret.top.assets[i].key))

\* a ranking of two traders cut from three, the upstream's order reversed,
\* in a batch that also holds a position without a trader
C15_Witness ==
    /\ call.op = "get_top_traders_and_assets"
    /\ call.top_traders_count = 2
    /\ Len(CallParseable) = 3
    /\ \E i \in 1..3 : CallParseable[i].trader_address = <<>>
    /\ Len(ret.top.traders) = 2
    /\ FracLess(ret.top.traders[2].total_volume, ret.top.traders[1].total_volume)
    /\ Lower(CallParseable[1].trader_address) = ret.top.traders[2].key

-----------------------------------------------------------------------------
(* What an order book holds, as the claims speak of it                     *)

\* get_orderbook returned a book built from at least one position; ret.out
\* holds the contributing positions, oldest first
BookBuilt ==
    call.op = "get_orderbook" /\ ret.k = "ok" /\ ret.out # <<>>

\* the positions that bid: the ones with a buyer
Bidding(ps) ==
    LET Keep(p) == p.trader_address # <<>>
    IN  SelectSeq(ps, Keep)

\* the positions that ask: the ones whose maker and taker are both known
Asking(ps) ==
    LET Keep(p) == p.maker_address # <<>> /\ p.taker_address # <<>>
    IN  SelectSeq(ps, Keep)

\* the positions of ps at one price
AtPrice(ps, price) ==
    LET Keep(p) == p.price = price
    IN  SelectSeq(ps, Keep)

\* a side's levels hold one level per price of the positions ps, each
\* counting and summing its positions and carrying their latest timestamp
MergedByPrice(levels, ps) ==
    /\ \A i, j \in 1..Len(levels) : levels[i].price = levels[j].price => i = j
    /\ {levels[i].price : i \in 1..Len(levels)} = {ps[i].price : i \in 1..Len(ps)}
    /\ \A i \in 1..Len(levels) :
        /\ levels[i].count = Len(AtPrice(ps, levels[i].price))
        /\ levels[i].amount = SumOfAmounts(AtPrice(ps, levels[i].price))
        /\ \E k \in 1..Len(ps) :
            /\ ps[k].price = levels[i].price
            /\ levels[i].last_trade_time = ps[k].timestamp
        /\ \A k \in 1..Len(ps) :
            ps[k].price = levels[i].price =>
                ps[k].timestamp.t <= levels[i].last_trade_time.t

\* the lists returned are the levels, price, amount and count of each
ListedAs(listed, levels) ==
    /\ Len(listed) = Len(levels)
    /\ \A i \in 1..Len(listed) :
        \E j \in 1..Len(levels) :
            /\ listed[i].price = levels[j].price
            /\ listed[i].amount = levels[j].amount
            /\ listed[i].count = levels[j].count

(* C16: in get_orderbook, positions with the exact same price merge into a *)
(* single level per side: the level's count equals the number of           *)
(* contributing positions, its amount equals the sum of their amounts, and *)
(* its last-trade time is the latest of their timestamps; no side ever     *)
(* contains two levels with the same price.                                *)
C16_LevelsMergeByPrice ==
    BookBuilt =>
        /\ MergedByPrice(ret.book.bid_levels, Bidding(ret.out))
        /\ MergedByPrice(ret.book.ask_levels, Asking(ret.out))
        /\ ListedAs(ret.book.bids, ret.book.bid_levels)
        /\ ListedAs(ret.book.asks, ret.book.ask_levels)
        /\ \A i, j \in 1..Len(ret.book.bids) :
                ret.book.bids[i].price = ret.book.bids[j].price => i = j
        /\ \A i, j \in 1..Len(ret.book.asks) :
                ret.book.asks[i].price = ret.book.asks[j].price => i = j

\* two fills at 0.5, the later one first in the upstream's answer, merged
\* into one level of amount 3.0 next to a level at another price
C16_Witness ==
    /\ BookBuilt
    /\ Len(call.response) = 3
    /\ Len(ret.book.bids) = 2
    /\ \E i \in 1..2 :
        /\ ret.book.bid_levels[i].price = [num |-> 1, den |-> 2]
        /\ ret.book.bid_levels[i].count = 2
        /\ ret.book.bid_levels[i].amount = [num |-> 3, den |-> 1]
        /\ ret.book.bid_levels[i].last_trade_time = Aware(2)
    /\ CallParseable[1].timestamp = Aware(2)
    /\ CallParseable[2].timestamp = Aware(1)
    /\ CallParseable[1].price = CallParseable[2].price

\* the prices of a returned list, in the list's order
PricesOf(listed) == [i \in 1..Len(listed) |-> listed[i].price]

\* the prices of the positions ps, as a set
PriceSetOf(ps) == {ps[i].price : i \in 1..Len(ps)}

(* C17: in every get_orderbook result the bids list is ordered by strictly *)
(* decreasing price and the asks list by strictly increasing price: bids   *)
(* with prices 0.3, 0.7, 0.5 come out as 0.7, 0.5, 0.3 and asks with the   *)
(* same prices as 0.3, 0.5, 0.7.                                           *)
C17_BookSortOrder ==
    call.op = "get_orderbook" /\ ret.k = "ok" =>
        /\ \A i \in 1..Len(ret.book.bids) - 1 :
                FracLess(ret.book.bids[i + 1].price, ret.book.bids[i].price)
        /\ \A i \in 1..Len(ret.book.asks) - 1 :
                FracLess(ret.book.asks[i].price, ret.book.asks[i + 1].price)
        /\ PriceSetOf(Bidding(ret.out)) = {Frac(3, 10), Frac(7, 10), Frac(1, 2)} =>
                PricesOf(ret.book.bids) = <<Frac(7, 10), Frac(1, 2), Frac(3, 10)>>
        /\ PriceSetOf(Asking(ret.out)) = {Frac(3, 10), Frac(7, 10), Frac(1, 2)} =>
                PricesOf(ret.book.asks) = <<Frac(3, 10), Frac(1, 2), Frac(7, 10)>>

\* the fills came at 0.3, 0.7 and 0.5, in that order
C17_Witness ==
    /\ BookBuilt
    /\ Len(CallParseable) = 3
    /\ CallParseable[1].price = Frac(3, 10)
    /\ CallParseable[2].price = Frac(7, 10)
    /\ CallParseable[3].price = Frac(1, 2)
    /\ Len(ret.book.bids) = 3 /\ Len(ret.book.asks) = 3

\* the sum of the counts of a returned list
RECURSIVE SumOfCounts(_)
SumOfCounts(listed) ==
    IF listed = <<>> THEN 0 ELSE Head(listed).count + SumOfCounts(Tail(listed))

\* every position of ps is counted in the level of the list at its price
LevelForEach(listed, ps) ==
    \A k \in 1..Len(ps) : \E i \in 1..Len(listed) : listed[i].price = ps[k].price

(* C18, as claimed: each contributing position is accumulated into a bid   *)
(* level (buyer = trader address) and into an ask level (seller = the one  *)
(* of maker and taker that is not the buyer, the maker when the buyer is   *)
(* unknown) at its price, so the sum of counts over all bid levels equals  *)
(* the sum of counts over all ask levels.                                  *)
C18_BidsAndAsksBalance ==
    BookBuilt =>
        /\ LevelForEach(ret.book.bids, Bidding(ret.out))
        /\ LevelForEach(ret.book.asks, Bidding(ret.out))
        /\ SumOfCounts(ret.book.bids) = SumOfCounts(ret.book.asks)

(* C18, amended: a position is accumulated into a bid level at its price   *)
(* when it has a trader address, and into an ask level at its price only   *)
(* when both its maker and its taker address are known; a position lacking *)
(* either address adds no ask. The sum of counts over the ask levels is    *)
(* the number of positions with both addresses, never more than the sum    *)
(* over the bid levels, and equal to it when every bidding position has    *)
(* both addresses.                                                         *)
C18_AsksNeedBothParties ==
    BookBuilt =>
        /\ LevelForEach(ret.book.bids, Bidding(ret.out))
        /\ LevelForEach(ret.book.asks, Asking(ret.out))
        /\ SumOfCounts(ret.book.bids) = Len(Bidding(ret.out))
        /\ SumOfCounts(ret.book.asks) = Len(Asking(ret.out))
        /\ SumOfCounts(ret.book.asks) <= SumOfCounts(ret.book.bids)
        /\ Asking(ret.out) = Bidding(ret.out) =>
                SumOfCounts(ret.book.asks) = SumOfCounts(ret.book.bids)

\* a book of two fills, one of them without a taker address: two bids, one
\* ask
C18_Witness ==
    /\ BookBuilt
    /\ Len(ret.out) = 2
    /\ \E k \in 1..2 : ret.out[k].taker_address = <<>> /\ ret.out[k].maker_address # <<>>
    /\ SumOfCounts(ret.book.bids) = 2
    /\ SumOfCounts(ret.book.asks) = 1

\* the largest timestamp among ps is the timestamp ts
LatestOf(ps, ts) ==
    /\ \E k \in 1..Len(ps) : ps[k].timestamp = ts
    /\ \A k \in 1..Len(ps) : ps[k].timestamp.t <= ts.t

\* the empty result: no bids, no asks, snapshot_time None
EmptyResult ==
    /\ ret.book.bids = <<>> /\ ret.book.asks = <<>>
    /\ ~ret.book.has_snapshot

(* C19, as claimed: every dictionary returned by get_orderbook carries the *)
(* keys bids, asks, snapshot_time, total_events and total_positions; when  *)
(* upstream returns no events or no event parses to the requested asset,   *)
(* bids and asks are empty and snapshot_time is None, otherwise            *)
(* snapshot_time is the maximum timestamp over the contributing positions. *)
C19_BookKeysAlways ==
    call.op = "get_orderbook" /\ ret.k = "ok" =>
        /\ {"bids", "asks", "snapshot_time", "total_events", "total_positions"}
                \subseteq ret.book.keys
        /\ CallByAsset = <<>> => EmptyResult
        /\ CallByAsset # <<>> =>
                ret.book.has_snapshot /\ LatestOf(CallByAsset, ret.book.snapshot)

(* C19, amended: every dictionary returned by get_orderbook carries the    *)
(* keys bids, asks, asset_id and snapshot_time; when upstream returns no   *)
(* events or no event parses to the requested asset, bids and asks are     *)
(* empty, snapshot_time is None and the dictionary has no total_events and *)
(* no total_positions key; otherwise it carries both (the number of events *)
(* fetched and of positions contributing) and snapshot_time is the maximum *)
(* timestamp over the contributing positions.                              *)
C19_BookKeysWhenBuilt ==
    call.op = "get_orderbook" /\ ret.k = "ok" =>
        /\ {"bids", "asks", "asset_id", "snapshot_time"} \subseteq ret.book.keys
        /\ CallByAsset = <<>> =>
            /\ EmptyResult
            /\ "total_events" \notin ret.book.keys
            /\ "total_positions" \notin ret.book.keys
        /\ CallByAsset # <<>> =>
            /\ {"total_events", "total_positions"} \subseteq ret.book.keys
            /\ ret.book.total_events = Len(call.response)
            /\ ret.book.total_positions = Len(CallByAsset)
            /\ ret.book.has_snapshot
            /\ LatestOf(CallByAsset, ret.book.snapshot)

\* upstream returned events, none of them of the asset asked for
C19_Witness ==
    /\ call.op = "get_orderbook" /\ ret.k = "ok"
    /\ Len(CallParseable) = 2
    /\ CallByAsset = <<>>
    /\ "total_events" \notin ret.book.keys

\* the integer a raw amount stands for; absent and unreadable stand for none
IsIntegerAmount(v, n) ==
    \/ v = JInt(n)
    \/ v = JStr(IntToStr(n))
    \/ v = JStr(<<" ">> \o IntToStr(n) \o <<" ">>)
    \/ v = JStr(<<"0", "x">> \o IntToStr(n))
    \/ v = Tagged("bigInteger", JStr(IntToStr(n)))
    \/ v = Tagged("integer", JInt(n))

IsAbsentAmount(v) ==
    v \in {JNull, JStr(<<>>), JStr(<<"a", "b", "c">>), Tagged("integer", JNull)}

\* the float x is n / 10^6
ScaledFrom(x, n) == x.num * 1000000 = n * x.den

One == [num |-> 1, den |-> 1]

(* C20: process_trade_amounts treats an absent input as zero, divides each *)
(* integer input by 10^6 and never raises on a zero token amount: equal    *)
(* inputs n > 0 give price 1.0, (0, 0) gives (0.0, 0.0, 0.0), and a zero   *)
(* or absent token amount gives price 0.0.                                 *)
C20_AmountsNormalised ==
    call.op = "process_trade_amounts" /\ ret # AmountsPending =>
        /\ ret.k = "ok"
        /\ IsAbsentAmount(call.usdc_paid) => ret.usdc = FZero
        /\ IsAbsentAmount(call.tokens_amount) => ret.tokens = FZero
        /\ \A n \in 0..MaxAmount :
            /\ IsIntegerAmount(call.usdc_paid, n) => ScaledFrom(ret.usdc, n)
            /\ IsIntegerAmount(call.tokens_amount, n) => ScaledFrom(ret.tokens, n)
            /\ n > 0 /\ IsIntegerAmount(call.usdc_paid, n)
                     /\ IsIntegerAmount(call.tokens_amount, n) => ret.price = One
        /\ IsIntegerAmount(call.usdc_paid, 0) /\ IsIntegerAmount(call.tokens_amount, 0) =>
                ret.usdc = FZero /\ ret.tokens = FZero /\ ret.price = FZero
        /\ IsAbsentAmount(call.tokens_amount) \/ IsIntegerAmount(call.tokens_amount, 0) =>
                ret.price = FZero

\* a call that paid something for a zero token amount
C20_Witness ==
    /\ call.op = "process_trade_amounts" /\ ret # AmountsPending
    /\ call.usdc_paid = JInt(MaxAmount)
    /\ call.tokens_amount = JStr(<<"0", "x", "0">>)
    /\ ret.k = "ok" /\ ret.price = FZero /\ ret.usdc # FZero

\* a tagged value container none of whose variants is populated
Unpopulated(v) ==
    /\ v.t = "dict"
    /\ \A i \in 1..Len(v.d) :
            v.d[i].k \in {"bigInteger", "integer", "string", "address", "hex", "bool"}
                => v.d[i].v.t = "null"

(* C21: for a tagged value container in which no variant is populated, the *)
(* empty container and the container of null variants included,            *)
(* extract_value and extract_string_value both return None.                *)
C21_UnpopulatedIsAbsent ==
    call.op = "extract" /\ ret # ValuePending /\ Unpopulated(call.value) =>
        /\ ret.k = "ok"
        /\ ret.fn = "extract_value" => ret.dec = NoDecimal
        /\ ret.fn = "extract_string_value" => ret.str = NoStr

\* the primitive a raw value resolves to, as the claims speak of it: the
\* value itself, or what the first non-null variant of a container holds
RECURSIVE ResolvedOf(_)
ResolvedOf(v) ==
    IF v.t = "dict" /\ ~Unpopulated(v)
    THEN LET first == CHOOSE i \in 1..Len(v.d) :
                        /\ v.d[i].v.t # "null"
                        /\ \A j \in 1..Len(v.d) : v.d[j].v.t # "null" => i <= j
         IN  ResolvedOf(v.d[first].v)
    ELSE v

\* the hexadecimal texts among the inputs, with the integers they denote
HexTexts == {<<<<"0", "x", "1", "f">>, 31>>}

(* C22: extract_value never raises: for every kind of resolved primitive   *)
(* (integer, float, boolean, numeric text, 0x-prefixed hex text, malformed *)
(* hex text, non-numeric text, empty text, bytes) it returns a decimal or  *)
(* None, and a 0x-prefixed text is parsed as a base-16 integer.            *)
C22_ExtractValueNeverRaises ==
    call.op = "extract" /\ ret.fn = "extract_value" =>
        /\ ret.k = "ok"
        /\ ret.dec.k \in {"num", "none"}
        /\ \A h \in HexTexts :
                ResolvedOf(call.value) = JStr(h[1]) => ret.dec = SomeDecimal(h[2])

\* the input without one leading 0x
Payload(s) == IF Len(s) >= 2 /\ s[1] = "0" /\ s[2] = "x" THEN SubSeq(s, 3, Len(s)) ELSE s

\* s without its characters in drop
Without(s, drop) == SelectSeq(s, LAMBDA c : c \notin drop)

\* only hex digits, an even number of them
EvenHex(s) == Len(s) % 2 = 0 /\ \A i \in 1..Len(s) : s[i] \in HexDigits

\* the spaces of s stand only before, between and after whole pairs of digits
SpacesBetweenPairs(s) ==
    \A i \in 1..Len(s) :
        s[i] \in HexDigits /\ Cardinality({j \in 1..(i - 1) : s[j] \in HexDigits}) % 2 = 1
            => s[i - 1] \in HexDigits

\* the text of the bytes written by the hex digits of s, two by two
RECURSIVE TextOfPairs(_)
TextOfPairs(s) ==
    IF Len(s) < 2 THEN <<>>
    ELSE <<IF DigitVal(s[1]) >= 8 THEN "U+FFFD"
           ELSE AsciiChar(16 * DigitVal(s[1]) + DigitVal(s[2]))>>
         \o TextOfPairs(SubSeq(s, 3, Len(s)))

(* C23, as claimed: on a string _decode_ancillary_data never raises; it    *)
(* strips one leading 0x and returns the UTF-8 decoding (invalid bytes     *)
(* replaced) of the hex payload; for a payload of odd length or with a     *)
(* character that is no hex digit it returns the input unchanged, 0x       *)
(* included; the empty input gives the empty string.                       *)
C23_DecodesHexOrKeepsInput ==
    call.op = "_decode_ancillary_data" /\ ret # DecodePending =>
        /\ ret.k = "ok"
        /\ call.hex_value = <<>> => ret.text = <<>>
        /\ EvenHex(Payload(call.hex_value)) =>
                ret.text = TextOfPairs(Payload(call.hex_value))
        /\ ~EvenHex(Payload(call.hex_value)) => ret.text = call.hex_value

(* C23, amended: on a string _decode_ancillary_data never raises; it       *)
(* strips one leading 0x and returns the UTF-8 decoding (invalid bytes     *)
(* replaced) of the hex payload, in which whitespace before, between and   *)
(* after the two-digit pairs is skipped; for a payload with an odd number  *)
(* of digits, with whitespace inside a pair or with a character that is    *)
(* neither a hex digit nor whitespace it returns the input unchanged, 0x   *)
(* included; the empty input gives the empty string.                       *)
C23_DecodesSpacedHexOrKeepsInput ==
    call.op = "_decode_ancillary_data" /\ ret # DecodePending =>
        LET payload == Payload(call.hex_value)
            valid == /\ EvenHex(Without(payload, Whitespace))
                     /\ SpacesBetweenPairs(payload)
        IN  /\ ret.k = "ok"
            /\ call.hex_value = <<>> => ret.text = <<>>
            /\ valid => ret.text = TextOfPairs(Without(payload, Whitespace))
            /\ ~valid => ret.text = call.hex_value

\* a prefixed payload of two pairs with a space between them
C23_Witness ==
    /\ call.op = "_decode_ancillary_data" /\ ret.k = "ok"
    /\ call.hex_value = <<"0", "x", "4", "4", " ">>
    /\ ret.text = <<"D">>

\* the tokens _detect_topics looks at
TopicTokens == TokenSet(Tokenize(ExtractCoreText(call.text)))

TopicSet == {TOPIC_KEYWORDS[i].topic : i \in 1..Len(TOPIC_KEYWORDS)}

KeywordsOfTopic(topic) ==
    TOPIC_KEYWORDS[CHOOSE k \in 1..Len(TOPIC_KEYWORDS) : TOPIC_KEYWORDS[k].topic = topic].keywords

\* for every topic, the number of its keywords among the tokens
MatchCounts(tokens) ==
    [t \in TopicSet |-> Cardinality({w \in tokens : w \in KeywordsOfTopic(t)})]

\* the topics are matched ones, each once, the min(3, number matched) with
\* the most matches, larger match counts first
RankedByMatches(topics, m, matched) ==
    /\ \A i \in 1..Len(topics) : topics[i] \in matched
    /\ \A i, j \in 1..Len(topics) : i # j => topics[i] # topics[j]
    /\ Len(topics) = IF Cardinality(matched) < 3 THEN Cardinality(matched) ELSE 3
    /\ \A i, j \in 1..Len(topics) : i < j => m[topics[i]] >= m[topics[j]]
    /\ \A t \in matched :
            (\A i \in 1..Len(topics) : topics[i] # t)
                => \A i \in 1..Len(topics) : m[topics[i]] >= m[t]

(* C24: _detect_topics returns between 1 and 3 topics: topics with at      *)
(* least one keyword among the tokens, in non-increasing order of match    *)
(* count, none of them left out in favour of one with fewer matches, cut   *)
(* to 3; it returns ["General"] exactly when no topic has a match, and     *)
(* never "General" next to a scored topic.                                 *)
C24_TopicsRanked ==
    call.op = "_detect_topics" /\ ret # AnalysisPending =>
        LET m == MatchCounts(TopicTokens)
            matched == {t \in TopicSet : m[t] > 0}
        IN  /\ ret.k = "ok"
            /\ Len(ret.topics) \in 1..3
            /\ ret.topics = <<"General">> <=> matched = {}
            /\ matched # {} => RankedByMatches(ret.topics, m, matched)
            /\ TopicTokens = {"bitcoin", "ethereum"} => ret.topics = <<"Crypto">>

\* four topics match, the one with two matches comes first, one is cut
C24_Witness ==
    /\ call.op = "_detect_topics" /\ ret.k = "ok"
    /\ call.text = <<"war", "price", "bitcoin", "ethereum", "election">>
    /\ ret.topics = <<"Crypto", "Politics", "Finance">>

\* the number of times token stands in tokens
Occurrences(token, tokens) == Cardinality({i \in 1..Len(tokens) : tokens[i] = token})

\* where token stands first in tokens
FirstAt(token, tokens) ==
    CHOOSE i \in 1..Len(tokens) : tokens[i] = token /\ \A j \in 1..(i - 1) : tokens[j] # token

\* the tokens that are counted: no stop word, three characters or more
Counted(tokens) ==
    {tokens[i] : i \in {k \in 1..Len(tokens) :
                        tokens[k] \notin STOPWORDS /\ tokens[k] \notin {"eu", "id"}}}

\* keywords are min(limit, number of candidates) distinct candidates, heavier
\* ones first and equally heavy ones in the order of encounter, and no
\* candidate left out should stand before one that was taken
RankedByWeight(keywords, candidates, weight, encounter, limit) ==
    /\ Len(keywords) = IF Cardinality(candidates) < limit THEN Cardinality(candidates) ELSE limit
    /\ \A i \in 1..Len(keywords) : keywords[i] \in candidates
    /\ \A i, j \in 1..Len(keywords) :
            i < j => \/ weight[keywords[i]] > weight[keywords[j]]
                     \/ /\ weight[keywords[i]] = weight[keywords[j]]
                        /\ encounter[keywords[i]] < encounter[keywords[j]]
    /\ \A t \in candidates :
            (\A i \in 1..Len(keywords) : keywords[i] # t) =>
                \A i \in 1..Len(keywords) :
                    \/ weight[keywords[i]] > weight[t]
                    \/ /\ weight[keywords[i]] = weight[t]
                       /\ encounter[keywords[i]] < encounter[t]

\* the keywords of a text whose title and description tokens are given
KeywordsRanked(keywords, title, description, whole, limit) ==
    LET fields == title \o description
        candidates == Counted(fields)
    IN  IF candidates # {}
        THEN RankedByWeight(keywords, candidates,
                [t \in candidates |-> 3 * Occurrences(t, title) + Occurrences(t, description)],
                [t \in candidates |-> FirstAt(t, fields)], limit)
        ELSE RankedByWeight(keywords, Counted(whole),
                [t \in Counted(whole) |-> Occurrences(t, whole)],
                [t \in Counted(whole) |-> FirstAt(t, whole)], limit)

(* C25: _extract_keywords gives each token that is no stop word and has    *)
(* three characters or more the weight 3 x (occurrences in the title       *)
(* field) + (occurrences in the description field), counts the whole text  *)
(* at weight 1 only when neither field yields a counted token, and returns *)
(* at most max_keywords tokens, heavier ones first and equally heavy ones  *)
(* in the order of first encounter.                                        *)
C25_KeywordsByWeight ==
    call.op = "_extract_keywords" /\ ret # AnalysisPending =>
        /\ ret.k = "ok"
        /\ Len(ret.keywords) <= call.max_keywords
        /\ KeywordsRanked(ret.keywords,
                          Tokenize(ExtractFieldValue(call.text, "title")),
                          Tokenize(ExtractFieldValue(call.text, "description")),
                          Tokenize(call.text), call.max_keywords)

\* the title's bitcoin, weight 3 + 3, stands before the description's war
C25_Witness ==
    /\ call.op = "_extract_keywords" /\ ret.k = "ok"
    /\ call.text = <<"title:", "Bitcoin", ",", "description:", "bitcoin", "war", "bitcoin">>
    /\ call.max_keywords = 2
    /\ ret.keywords = <<"bitcoin", "war">>

\* the operations that record what they return, and those that only read
RecordingOps == {"track_trader", "follow_trader_positions", "get_recent_positions"}
ReadingOps ==
    {"get_positions_by_asset", "calculate_market_price", "get_trader_summary",
     "get_top_traders_and_assets", "get_orderbook", "get_question_details"}

-----------------------------------------------------------------------------
(* Which candidate an amount is read from                                  *)

\* the candidates of one side that are present and resolve to a number
Resolving(keys) ==
    {i \in 1..Len(keys) :
        /\ DictHas(ArgDict(event).d, keys[i])
        /\ ExtractValue(DictGet(ArgDict(event).d, keys[i])).k = "num"}

\* the value of the first of them, None when there is none
FirstResolving(keys) ==
    IF Resolving(keys) = {} THEN NoDecimal
    ELSE LET first == CHOOSE i \in Resolving(keys) : \A j \in Resolving(keys) : i <= j
         IN  ExtractValue(DictGet(ArgDict(event).d, keys[first]))

\* a candidate of one side is present with a value that resolves to a bool
BoolCandidate(keys) ==
    \E i \in 1..Len(keys) :
        /\ DictHas(ArgDict(event).d, keys[i])
        /\ ResolveValue(DictGet(ArgDict(event).d, keys[i])).t = "bool"

\* the Position is the one of a maker paying FirstResolving(MakerAmountKeys)
\* of the stablecoin for FirstResolving(TakerAmountKeys) of the token
ReadsFirstResolving ==
    /\ parsed.k = "pos"
    /\ parsed.p.amount = Frac(AmountOrZero(FirstResolving(TakerAmountKeys)), 1000000)
    /\ parsed.p.price = Ratio(FirstResolving(MakerAmountKeys),
                              FirstResolving(TakerAmountKeys))

(* C27, as claimed: for each side the amount used by the parse is the      *)
(* value of the first candidate name, in the fixed order, that is present  *)
(* and resolves to a number; a present candidate whose value does not      *)
(* resolve is skipped for a later one and does not make the parse fail.    *)
C27_FirstResolvingCandidate ==
    /\ event \in CandidateEvents
    /\ parsed # Pending
    /\ Resolving(MakerAmountKeys) \cup Resolving(TakerAmountKeys) # {}
    => ReadsFirstResolving

-----------------------------------------------------------------------------
(* Who counts as a trader of an asset                                      *)

\* stats["unique_traders_count"] = len(stats["unique_traders"])
UniqueTradersCount(stats) == Cardinality(stats.members)

\* the lowercased trader addresses of the call's Positions in one asset
TradersOfAsset(asset_id) ==
    {Lower(CallParseable[i].trader_address) :
        i \in {j \in 1..Len(CallParseable) : Strip(CallParseable[j].asset_id) = asset_id}}

(* C29, as claimed: in get_top_traders_and_assets every asset entry's      *)
(* unique_traders_count is the number of distinct non-empty trader         *)
(* addresses among that asset's parsed positions; a position with an empty *)
(* trader address is not counted as a trader of its asset.                 *)
C29_CountsNonEmptyTraders ==
    call.op = "get_top_traders_and_assets" =>
        \A i \in 1..Len(ret.top.assets) :
            UniqueTradersCount(ret.top.assets[i])
                = Cardinality(TradersOfAsset(ret.top.assets[i].key) \ {<<>>})

-----------------------------------------------------------------------------
(* The order book and the order of the events                              *)

\* the rearrangements of n events
Rearrangements(n) ==
    {f \in [1..n -> 1..n] : \A i, j \in 1..n : f[i] = f[j] => i = j}

Shuffled(events, f) == [i \in 1..Len(events) |-> events[f[i]]]

\* a side of the book as a set of levels: price, count and last-trade time
LevelSet(levels) ==
    {[price |-> levels[i].price, count |-> levels[i].count,
      last_trade_time |-> levels[i].last_trade_time] : i \in 1..Len(levels)}

\* what the claim compares of an outcome of get_orderbook
BookView(r) ==
    [k |-> r.k, bids |-> LevelSet(r.book.bid_levels),
     asks |-> LevelSet(r.book.ask_levels),
     total_positions |-> r.book.total_positions,
     has_snapshot |-> r.book.has_snapshot, snapshot |-> r.book.snapshot]

\* the book is the same for every rearrangement of the call's batch
SameForEveryOrder ==
    \A f \in Rearrangements(Len(call.response)) :
        BookView(GetOrderbookOp(call.asset_id, call.limit,
                                Shuffled(call.response, f), now))
            = BookView(ret)

\* the event carries a block time
HasBlockTime(ev) ==
    ev.Block.k = "dict" /\ ev.Block.Time.k = "str" /\ ev.Block.Time.fmt # "empty"

(* C28, as claimed: the order book does not depend on the order in which   *)
(* upstream returns the events: for any permutation of the same batch the  *)
(* sets of bid and ask levels, each level's count and last-trade time,     *)
(* total_positions and snapshot_time are identical.                        *)
C28_BookIgnoresEventOrder ==
    call.op = "get_orderbook" => SameForEveryOrder

(* C28, amended: for a batch in which every event carries a block time,    *)
(* any permutation of the batch gives the same sets of bid and ask levels, *)
(* the same count and last-trade time of each level, the same              *)
(* total_positions and the same snapshot_time (an event without a block    *)
(* time is stamped with the wall clock when it is parsed, which depends on *)
(* its place in the batch).                                                *)
C28_DatedBookIgnoresEventOrder ==
    /\ call.op = "get_orderbook"
    /\ \A i \in 1..Len(call.response) : HasBlockTime(call.response[i])
    => SameForEveryOrder

\* three dated fills, the latest returned first, two of them at one price
C28_Witness ==
    /\ BookBuilt
    /\ \A i \in 1..Len(call.response) : HasBlockTime(call.response[i])
    /\ Len(ret.out) = 3
    /\ CallParseable[1].timestamp = Aware(2)
    /\ CallParseable[2].timestamp = Aware(1)
    /\ CallParseable[3].timestamp = Aware(1)
    /\ Len(ret.book.bid_levels) = 2
    /\ ret.book.snapshot = Aware(2)

-----------------------------------------------------------------------------
(* The lookup chain of get_question_details                                *)

\* the id a step reads from the events it was answered with: "" when there
\* are no events, when no event carries one or when reading them fails
IdFrom(events, keys) ==
    IF events # <<>> /\ FindId(events, 1, keys).k = "ok"
    THEN FindId(events, 1, keys).id ELSE <<>>

\* the conditionId of step 1 and the questionId of step 2, "" when the chain
\* does not get that far
ConditionIdFound == IdFrom(call.token_events, ConditionKeys)
QuestionIdFound ==
    IF ConditionIdFound = <<>> THEN <<>>
    ELSE IdFrom(call.question_events, QuestionKeys)

\* the ancillary data step 3 reads, "" likewise
AncillaryFound ==
    IF QuestionIdFound # <<>> /\ call.question_data_events # <<>>
            /\ FindAncillary(call.question_data_events, 1).k = "ok"
    THEN FindAncillary(call.question_data_events, 1).hex ELSE <<>>

\* the queries the chain is to issue, in order
ChainQueries ==
    <<Query("get_token_registered_by_asset_id", call.asset_id)>>
    \o (IF ConditionIdFound # <<>>
        THEN <<Query("get_question_events_by_condition_id", ConditionIdFound)>>
        ELSE <<>>)
    \o (IF QuestionIdFound # <<>>
        THEN <<Query("get_question_data_by_question_id", QuestionIdFound)>>
        ELSE <<>>)

(* C30: get_question_details runs its three lookups strictly in order      *)
(* (asset id -> conditionId, conditionId -> questionId, questionId ->      *)
(* ancillaryData): the query of step k+1 is issued only after step k       *)
(* produced a non-empty id and is keyed by that id; as soon as a step      *)
(* returns no events or yields no id the chain stops, no later query is    *)
(* issued and the result is None; no exception leaves the operation.       *)
C30_LookupChainInOrder ==
    ret # DetailsPending =>
        /\ ret.k = "ok"
        /\ ret.queries = ChainQueries
        /\ (ConditionIdFound = <<>> \/ QuestionIdFound = <<>> \/ AncillaryFound = <<>>)
                => ret.result = NoStr
        /\ ret.result # NoStr => Len(ret.queries) = 3

\* the conditionId is found in the second event of step 1, the chain runs
\* to its end and the ancillary data decodes
C30_Witness ==
    /\ ret # DetailsPending
    /\ Len(call.token_events) = 2
    /\ ProbeId(ArgDict(call.token_events[1]).d, ConditionKeys, 1) = <<>>
    /\ ret.queries = <<Query("get_token_registered_by_asset_id", Asset12345),
                       Query("get_question_events_by_condition_id", <<"a", "b">>),
                       Query("get_question_data_by_question_id", <<"c", "d">>)>>
    /\ ret.result = SomeStr(<<"O", "D">>)

=============================================================================
